---- MODULE Spec2Model ----
(***************************************************************************)
(* Model of the generate-and-extract core of the Academic Apex project:    *)
(*   - OllamaAdapter.generate (agentforge_academic_apex/ollama_adapter.py) *)
(*   - IngestionPipeline      (backend/ingestion_pipeline.py)              *)
(* Texts are sequences of Unicode code points, so that len(), strip() and  *)
(* decoding are computed and not assumed.                                  *)
(***************************************************************************)
EXTENDS Integers, Sequences, FiniteSets, TLC

(***************************************************************************)
(* Bounds of the model                                                     *)
(***************************************************************************)
\* longest file content, in bytes, that the text extractor is fed
MaxBytes == 2
\* most pages of a PDF document
MaxPages == 2

None == "None"
\* the value None where dicts are expected
NoneValue == [is_none |-> TRUE]

(***************************************************************************)
(* OllamaAdapter                                                           *)
(***************************************************************************)
VARIABLES
    base_url,          \* self.base_url
    model,             \* self.model, the default model
    session_timeout,   \* self.session.timeout, an attribute the adapter sets
    json_error_is_request_exception,
                       \* the installed requests raises its own JSONDecodeError,
                       \* a RequestException, from response.json() (>= 2.27);
                       \* older builds raise json.JSONDecodeError, a ValueError
    pc,                \* position of the generate call
    prior_call,        \* how the call before this one on the adapter ended
    model_name,        \* local model_name of the call
    attempt,           \* loop variable of the retry loop
    posts,             \* POST requests issued by the call
    history,           \* outcomes of the attempts of the call, in order
    slept,             \* delays handed to time.sleep by the call, in order
    result,            \* value returned by the call, or None
    error              \* class of the exception that left the call, or None

genVars == <<base_url, model, session_timeout, json_error_is_request_exception,
             pc, prior_call, model_name, attempt, posts, history, slept, result,
             error>>

\* ---- the backend's answers ------------------------------------------------

\* keys of the reply object that generate reads
Keys == {"response", "prompt_eval_count", "eval_count", "done"}

\* "REFINED PROMPT:", the last line of both curation templates
Marker == <<82, 69, 70, 73, 78, 69, 68, 32, 80, 82, 79, 77, 80, 84, 58>>

\* JSON objects the backend may send (a function from the keys present)
DictBodies ==
    { [response |-> <<32>> \o Marker \o <<32, 104, 105, 10>>, eval_count |-> 5],
      [response |-> <<104, 105>>, prompt_eval_count |-> 7, eval_count |-> 5, done |-> TRUE],
      [response |-> <<104, 105>>],
      [response |-> <<104, 105>>, eval_count |-> 5, done |-> FALSE],
      [response |-> <<>>],
      [response |-> <<>>, prompt_eval_count |-> 7],
      [done |-> TRUE],
      [prompt_eval_count |-> 7, eval_count |-> 5] }

\* a reply body: unparsable text, or a JSON value of some shape; for a string
\* or a list, has_response says whether "response" occurs in it (as a
\* substring, as an element)
Bodies ==
    { [shape |-> "unparsable", has_response |-> FALSE, fields |-> <<>>],
      [shape |-> "null",       has_response |-> FALSE, fields |-> <<>>],
      [shape |-> "number",     has_response |-> FALSE, fields |-> <<>>],
      [shape |-> "string",     has_response |-> FALSE, fields |-> <<>>],
      [shape |-> "string",     has_response |-> TRUE,  fields |-> <<>>],
      [shape |-> "list",       has_response |-> FALSE, fields |-> <<>>],
      [shape |-> "list",       has_response |-> TRUE,  fields |-> <<>>] }
    \cup { [shape |-> "dict", has_response |-> "response" \in DOMAIN d, fields |-> d]
           : d \in DictBodies }

NoBody == [shape |-> "none", has_response |-> FALSE, fields |-> <<>>]

\* statuses that raise_for_status lets through, and statuses it rejects
PassStatuses == {200, 300}
ErrorStatuses == {404, 500}

\* what one POST can meet: the connection fails, the backend never answers,
\* or a reply arrives (the body of a rejected status is never read)
Outcomes ==
    { [kind |-> "connection_error", status |-> 0, body |-> NoBody],
      [kind |-> "no_answer",        status |-> 0, body |-> NoBody] }
    \cup { [kind |-> "reply", status |-> s, body |-> NoBody] : s \in ErrorStatuses }
    \cup { [kind |-> "reply", status |-> s, body |-> b] : s \in PassStatuses, b \in Bodies }

\* ---- pure parts of generate ------------------------------------------------

Min(a, b) == IF a < b THEN a ELSE b

RECURSIVE Pow2(_)
Pow2(n) == IF n = 0 THEN 1 ELSE 2 * Pow2(n - 1)

\* a plausible slip: linear instead of exponential
exponential_backoff_linear(a) == Min(2 * a, 30)

exponential_backoff(a) == Min(Pow2(a), 30)

\* a loop shorter than the attempt the except clauses take for the last
AttemptRange_short == 0 .. 1

\* range(3)
AttemptRange == 0 .. 2

\* timeout argument of self.session.post(...): none is passed, and requests
\* reads no timeout attribute of the session
PostTimeout == None

\* response.raise_for_status()
RaisesForStatus(status) == 400 <= status /\ status < 600

Get(d, k, default) == IF k \in DOMAIN d THEN d[k] ELSE default

\* the dict generate returns
GenerationResult(b, name) ==
    [text              |-> b.fields["response"],
     model             |-> name,
     prompt_tokens     |-> Get(b.fields, "prompt_eval_count", 0),
     completion_tokens |-> Get(b.fields, "eval_count", 0),
     done              |-> Get(b.fields, "done", TRUE)]

\* a plausible slip: an empty `response` treated like a missing one
ResponseMissing_falsy(b) ==
    \/ ~ b.has_response
    \/ (b.shape = "dict" /\ b.fields["response"] = <<>>)

\* `"response" not in result` for a value that supports `in`: a key of a dict,
\* an element of a list, a substring of a string
ResponseMissing(b) == ~ b.has_response

\* What the body of the try block ends in for one outcome:
\*   "return"                       the return statement is reached
\*   "requests.ConnectionError"     raised by session.post
\*   "requests.RequestException"    HTTPError, Timeout, requests' JSONDecodeError
\*   "ValueError"                   json.JSONDecodeError or the ValueError of line 102
\*   "TypeError"                    `in` applied to None or a number, or
\*                                  ["response"] applied to a list or a string
TryOutcome(o, jsonIsReqExc) ==
    IF o.kind = "connection_error" THEN "requests.ConnectionError"
    ELSE IF o.kind = "no_answer" THEN "requests.RequestException"
    ELSE IF RaisesForStatus(o.status) THEN "requests.RequestException"
    ELSE IF o.body.shape = "unparsable"
         THEN (IF jsonIsReqExc THEN "requests.RequestException" ELSE "ValueError")
    ELSE IF o.body.shape \in {"null", "number"} THEN "TypeError"
    ELSE IF ResponseMissing(o.body) THEN "ValueError"
    ELSE IF o.body.shape \in {"string", "list"} THEN "TypeError"
    ELSE "return"

\* the except clause that catches an exception of the try block, or "none"
Handler(exc) ==
    CASE exc = "requests.ConnectionError"  -> "connection"
      [] exc = "requests.RequestException" -> "request"
      [] exc = "ValueError"                -> "parsing"
      [] OTHER                             -> "none"

\* the exception each except clause raises on the last attempt
TerminalError(h) ==
    CASE h = "connection" -> "ConnectionError"
      [] h = "request"    -> "ConnectionError"
      [] h = "parsing"    -> "ValueError"

\* a plausible slip: the last attempt taken to be the one after the third
IsLastAttempt_late(a) == a = 3

\* attempt == 2
IsLastAttempt(a) == a = 2

\* state of the ingestion pipeline, declared here for the frame conditions
VARIABLES
    tesseract_available,  \* self.tesseract_available
    pymupdf_available,    \* self.pymupdf_available
    supported_types,      \* keys of self.supported_types, the extractor registry
    probes,               \* capability probes run so far and what each found
    failed_before,        \* some earlier call on this pipeline ended in a failure
    op,                   \* the pipeline method called last, or None
    running,              \* the pipeline method a caller is inside of for good
    doc,                  \* the file it was called on
    outcome,              \* what that call returned
    escaped,              \* class of the exception that left that call, or None
    extractor_calls,      \* extractors that call invoked, in order
    ocr_calls,            \* times that call ran the OCR tool
    text_reads,           \* encodings that call opened the file with, in order
    temp_created,         \* temporary raster files that call created
    temp_left,            \* those of them that exist when the call ends
    upload_pc,            \* where each upload request stands: idle, reading, answered
    upload_type,          \* content type each request declared, or None
    upload_result,        \* what process_document ended with for each request
    upload_status,        \* HTTP status upload_document answered each with, or 0
    upload_response       \* the body of that answer

\* upload requests the event loop of the backend serves at a time
Uploads == {1, 2}

uploadVars == <<upload_pc, upload_type, upload_result, upload_status, upload_response>>

ingVars == <<tesseract_available, pymupdf_available, supported_types, probes,
             failed_before, op, running, doc,
             outcome, escaped, extractor_calls, ocr_calls, text_reads,
             temp_created, temp_left, uploadVars>>

VARIABLES
    cur_pc,               \* position of the curate_prompt call of the curator service
    cur_prompt,           \* its argument prompt
    cur_instruction,      \* its argument instruction
    cur_curation_prompt,  \* the text it hands to curator_adapter.generate
    cur_generate_calls,   \* calls of generate that curate_prompt call has made
    cur_posts,            \* POST requests those calls had issued when they ended
    cur_result,           \* what the curate_prompt call returned, or None
    cur_escaped,          \* class of the exception that left it, or None
    endpoint_calls,       \* the curate_endpoint call of each request thread of the service
    client_prompt,        \* argument of the last call of the client's curate_prompt
    client_pc,            \* where the wrapper stands: idle, awaiting, returned, raised
    client_reply,         \* what its POST to the curator service met
    client_returned,      \* the text that call returned
    client_escaped        \* class of the exception that left that call, or None

serviceVars == <<cur_pc, cur_prompt, cur_instruction, cur_curation_prompt,
                 cur_generate_calls, cur_posts, cur_result, cur_escaped>>

clientVars == <<client_pc, client_prompt, client_reply, client_returned, client_escaped>>

endpointVars == <<endpoint_calls>>

curVars == <<serviceVars, endpointVars, clientVars>>

\* state of the adapter shared by several callers, declared here for the frame
\* conditions
VARIABLES
    calls,                \* the locals of the generate call of each thread
    probe_op,             \* the probe method called last, or None
    probe_pc,             \* position of that call
    probe_met,            \* what its GET request met
    probe_gets,           \* GET requests that call issued
    probe_returned,       \* what that call returned
    probe_escaped         \* class of the exception that left that call, or None

probeVars == <<probe_op, probe_pc, probe_met, probe_gets, probe_returned, probe_escaped>>

sharedVars == <<calls, probeVars>>

vars == <<genVars, ingVars, curVars, sharedVars>>

\* ---- one generate call, step by step ---------------------------------------

\* the argument `model` of generate: <<>> for None, <<name>> for the string name
NoModel == <<>>

ModelArgs == {NoModel, <<"llama3">>, <<"">>}

\* model or self.model: None and the empty string give the adapter's model
ModelOr(m) == IF m = NoModel \/ m[1] = "" THEN model ELSE m[1]

GenInit ==
    /\ base_url = "http://localhost:11434"
    /\ model = "deepseek-coder"
    /\ session_timeout = 120
    /\ json_error_is_request_exception \in BOOLEAN
    /\ pc = "idle"
    /\ prior_call = "none"
    /\ model_name = None
    /\ attempt = 0
    /\ posts = 0
    /\ history = <<>>
    /\ slept = <<>>
    /\ result = NoneValue
    /\ error = None

adapterVars == <<base_url, model, session_timeout, json_error_is_request_exception>>

\* generate storing the model of the call on the adapter
Enter_sticky_model(m) ==
    /\ pc \in {"idle", "returned", "raised"}
    /\ prior_call' = IF pc = "idle" THEN "none" ELSE pc
    /\ model_name' = ModelOr(m)
    /\ model' = model_name'
    /\ attempt' = 0
    /\ posts' = 0
    /\ history' = <<>>
    /\ slept' = <<>>
    /\ result' = NoneValue
    /\ error' = None
    /\ pc' = "attempting"
    /\ UNCHANGED <<base_url, session_timeout, json_error_is_request_exception>>

\* generate(prompt, model=m) is entered: lines 74-87
Enter(m) ==
    /\ pc \in {"idle", "returned", "raised"}
    /\ prior_call' = IF pc = "idle" THEN "none" ELSE pc
    /\ model_name' = ModelOr(m)
    /\ attempt' = 0
    /\ posts' = 0
    /\ history' = <<>>
    /\ slept' = <<>>
    /\ result' = NoneValue
    /\ error' = None
    /\ pc' = "attempting"
    /\ UNCHANGED adapterVars

\* a caller of the adapter calls generate
Call(m) == Enter(m) /\ UNCHANGED <<ingVars, curVars, sharedVars>>

\* self.session.post(...) is issued: lines 91-95
Post ==
    /\ pc = "attempting"
    /\ posts' = posts + 1
    /\ pc' = "awaiting"
    /\ UNCHANGED <<adapterVars, prior_call, model_name, attempt, history, slept, result, error,
                   ingVars, curVars, sharedVars>>

\* The attempt ends with outcome o: the rest of the try block and the except
\* clauses, lines 97-140.  Without a timeout a backend that never answers
\* leaves session.post blocked.
Settle(o) ==
    LET t == TryOutcome(o, json_error_is_request_exception)
        h == Handler(t)
    IN  /\ pc = "awaiting"
        /\ history' = Append(history, o)
        /\ IF o.kind = "no_answer" /\ PostTimeout = None
              THEN pc' = "blocked" /\ UNCHANGED <<result, error, slept>>
           ELSE IF t = "return"
              THEN /\ pc' = "returned"
                   /\ result' = GenerationResult(o.body, model_name)
                   /\ UNCHANGED <<error, slept>>
           ELSE IF h = "none"
              THEN pc' = "raised" /\ error' = t /\ UNCHANGED <<result, slept>>
           ELSE IF IsLastAttempt(attempt)
              THEN pc' = "raised" /\ error' = TerminalError(h) /\ UNCHANGED <<result, slept>>
           ELSE /\ slept' = Append(slept, exponential_backoff(attempt))
                /\ pc' = "sleeping"
                /\ UNCHANGED <<result, error>>
        /\ UNCHANGED <<adapterVars, prior_call, model_name, attempt, posts,
                       ingVars, curVars, sharedVars>>

\* the backend replies with some status and body
Reply == \E o \in Outcomes : o.kind = "reply" /\ Settle(o)

\* the connection is refused or reset
ConnectionFails == \E o \in Outcomes : o.kind = "connection_error" /\ Settle(o)

\* the backend accepts the request and never answers
BackendSilent == \E o \in Outcomes : o.kind = "no_answer" /\ Settle(o)

\* time.sleep(delay) returns and the for loop takes its next element; when the
\* range is exhausted the function ends without a return statement
Wake ==
    /\ pc = "sleeping"
    /\ attempt' = attempt + 1
    /\ IF attempt + 1 \in AttemptRange
          THEN pc' = "attempting" /\ UNCHANGED result
          ELSE pc' = "returned" /\ result' = NoneValue
    /\ UNCHANGED <<adapterVars, prior_call, model_name, posts, history, slept, error,
                   ingVars, curVars, sharedVars>>

(***************************************************************************)
(* IngestionPipeline                                                       *)
(***************************************************************************)
\* ---- texts -------------------------------------------------------------------

\* str.isspace() for the code points below 256
Whitespace == {9, 10, 11, 12, 13, 28, 29, 30, 31, 32, 133, 160}

RECURSIVE LStrip(_)
LStrip(t) == IF t # <<>> /\ Head(t) \in Whitespace THEN LStrip(Tail(t)) ELSE t

RECURSIVE RStrip(_)
RStrip(t) ==
    IF t # <<>> /\ t[Len(t)] \in Whitespace THEN RStrip(SubSeq(t, 1, Len(t) - 1)) ELSE t

\* str.strip()
Strip(t) == RStrip(LStrip(t))

\* str(n) for n >= 0
RECURSIVE Str(_)
Str(n) == IF n < 10 THEN <<48 + n>> ELSE Str(n \div 10) \o <<48 + (n % 10)>>

\* "\n\n".join(parts)
RECURSIVE Join(_)
Join(parts) ==
    IF parts = <<>> THEN <<>>
    ELSE IF Len(parts) = 1 THEN parts[1]
    ELSE parts[1] \o <<10, 10>> \o Join(Tail(parts))

\* ---- decoding ----------------------------------------------------------------

\* the element of a set of one element
TheOne(S) == CHOOSE x \in S : TRUE

\* what reading in text mode makes of the decoded text t: "\r\n" and a lone
\* "\r" become "\n".  A "\n" that follows a "\r" goes, every "\r" becomes "\n".
Newlines(t) ==
    LET kept == {i \in 1 .. Len(t) : ~ (t[i] = 10 /\ i > 1 /\ t[i - 1] = 13)}
    IN  [k \in 1 .. Cardinality(kept) |->
            LET i == CHOOSE j \in kept : Cardinality({h \in kept : h < j}) = k - 1
            IN  IF t[i] = 13 THEN 10 ELSE t[i]]

\* data[k] exists and lies within lo .. hi
Continues(data, k, lo, hi) == Len(data) >= k /\ lo <= data[k] /\ data[k] <= hi

\* the length of the well-formed utf-8 sequence that starts at data[k], or 0:
\* no overlong forms, no surrogates, nothing above U+10FFFF
Utf8Length(data, k) ==
    LET b == data[k]
    IN  IF b < 128 THEN 1
        ELSE IF 194 <= b /\ b <= 223
             THEN IF Continues(data, k + 1, 128, 191) THEN 2 ELSE 0
        ELSE IF 224 <= b /\ b <= 239
             THEN IF /\ Continues(data, k + 1, IF b = 224 THEN 160 ELSE 128,
                                                IF b = 237 THEN 159 ELSE 191)
                     /\ Continues(data, k + 2, 128, 191)
                  THEN 3 ELSE 0
        ELSE IF 240 <= b /\ b <= 244
             THEN IF /\ Continues(data, k + 1, IF b = 240 THEN 144 ELSE 128,
                                                IF b = 244 THEN 143 ELSE 191)
                     /\ Continues(data, k + 2, 128, 191)
                     /\ Continues(data, k + 3, 128, 191)
                  THEN 4 ELSE 0
        ELSE 0

\* the code point of the well-formed sequence of n bytes that starts at data[k]
Utf8CodePoint(data, k, n) ==
    CASE n = 1 -> data[k]
      [] n = 2 -> (data[k] - 192) * 64 + (data[k + 1] - 128)
      [] n = 3 -> (data[k] - 224) * 4096 + (data[k + 1] - 128) * 64
                      + (data[k + 2] - 128)
      [] n = 4 -> (data[k] - 240) * 262144 + (data[k + 1] - 128) * 4096
                      + (data[k + 2] - 128) * 64 + (data[k + 3] - 128)

\* the code point c before the decoded rest r
Prepend(c, r) == [ok |-> r.ok, text |-> IF r.ok THEN <<c>> \o r.text ELSE <<>>]

\* the utf-8 decoder (strict) from data[k] on
RECURSIVE Utf8From(_, _)
Utf8From(data, k) ==
    IF k > Len(data) THEN [ok |-> TRUE, text |-> <<>>]
    ELSE TheOne({ IF n = 0 THEN [ok |-> FALSE, text |-> <<>>]
                  ELSE Prepend(Utf8CodePoint(data, k, n), Utf8From(data, k + n))
                    : n \in {Utf8Length(data, k)} })

\* open(file_path, 'r', encoding='utf-8').read()
DecodeUtf8(data) ==
    TheOne({ [ok |-> r.ok, text |-> Newlines(r.text)] : r \in {Utf8From(data, 1)} })

\* open(file_path, 'r', encoding='latin-1').read(): every byte is the code
\* point of the same number
DecodeLatin1(data) == [ok |-> TRUE, text |-> Newlines(data)]

\* bytes of cp1252 that have no character
Cp1252Undefined == {129, 141, 143, 144, 157}

\* the characters of the bytes 0x80-0x9F of cp1252
Cp1252High ==
    [b \in (128 .. 159) \ Cp1252Undefined |->
        CASE b = 128 -> 8364 [] b = 130 -> 8218 [] b = 131 -> 402  [] b = 132 -> 8222
          [] b = 133 -> 8230 [] b = 134 -> 8224 [] b = 135 -> 8225 [] b = 136 -> 710
          [] b = 137 -> 8240 [] b = 138 -> 352  [] b = 139 -> 8249 [] b = 140 -> 338
          [] b = 142 -> 381  [] b = 145 -> 8216 [] b = 146 -> 8217 [] b = 147 -> 8220
          [] b = 148 -> 8221 [] b = 149 -> 8226 [] b = 150 -> 8211 [] b = 151 -> 8212
          [] b = 152 -> 732  [] b = 153 -> 8482 [] b = 154 -> 353  [] b = 155 -> 8250
          [] b = 156 -> 339  [] b = 158 -> 382  [] b = 159 -> 376]

\* open(file_path, 'r', encoding='cp1252').read()
DecodeCp1252(data) ==
    IF \E i \in 1 .. Len(data) : data[i] \in Cp1252Undefined
    THEN [ok |-> FALSE, text |-> <<>>]
    ELSE [ok |-> TRUE,
          text |-> TheOne({ Newlines(t) : t \in
                      { [i \in 1 .. Len(data) |->
                           IF data[i] \in DOMAIN Cp1252High THEN Cp1252High[data[i]]
                                                            ELSE data[i]] } })]

Decode(encoding, data) ==
    CASE encoding = "utf-8"   -> DecodeUtf8(data)
      [] encoding = "latin-1" -> DecodeLatin1(data)
      [] encoding = "cp1252"  -> DecodeCp1252(data)

\* ---- documents -----------------------------------------------------------------

\* 50 * 1024 * 1024
MaxSize == 52428800

\* 3 bytes, the limit, one byte more, and 50.25 MB
Sizes == {3, MaxSize, MaxSize + 1, MaxSize + 262144}

\* bytes a text file is made of: "A", CR, LF, 0xC3, 0xA9, 0x81
ByteValues == {65, 13, 10, 195, 169, 129}

RECURSIVE SeqsUpTo(_, _)
SeqsUpTo(S, n) ==
    IF n = 0 THEN {<<>>}
    ELSE LET shorter == SeqsUpTo(S, n - 1)
         IN  shorter \cup {Append(q, x) : q \in shorter, x \in S}

\* what one run of the OCR tool on an image does: it prints `out` and exits 0,
\* it exits with an error, or running it raises (the tool cannot be started)
OcrRuns ==
    { [kind |-> "stdout", out |-> <<104, 105>>],
      [kind |-> "stdout", out |-> <<32, 104, 105, 10>>],
      [kind |-> "stdout", out |-> <<32, 10>>],
      [kind |-> "exit_error", out |-> <<>>],
      [kind |-> "raises", out |-> <<>>] }

OcrFails == [kind |-> "exit_error", out |-> <<>>]

\* a run of the OCR tool that never exits
OcrNeverExits == [kind |-> "never_exits", out |-> <<>>]

\* a PDF page: its text layer and what OCR of its raster image does
\* raster says whether the page's image can be written to the temporary file
Page(text, ocr, raster) == [text |-> text, ocr |-> ocr, raster |-> raster]

TextPage == Page(<<84, 10>>, OcrFails, "written")

Pages ==
    { TextPage,
      Page(<<32>>, [kind |-> "stdout", out |-> <<104, 105>>], "written"),
      Page(<<>>, OcrFails, "write_fails") }
    \cup { Page(<<>>, r, "written")
             : r \in OcrRuns \ {[kind |-> "stdout", out |-> <<32, 104, 105, 10>>]} }

\* A file handed to the pipeline.  size is what stat() reports and data is the
\* content the text extractor reads; the pipeline never relates the two.
\*   state     "file", "missing", "directory" or "unreadable"
\*   vanishes  the file is removed while it is being extracted
\*   opens     the PDF library can open it
Document(suffix, state, vanishes, size, data, opens, pages, ocr) ==
    [suffix |-> suffix, state |-> state, vanishes |-> vanishes, size |-> size,
     data |-> data, opens |-> opens, pages |-> pages, ocr |-> ocr]

TextDocuments ==
    { Document(x, "file", FALSE, z, d, FALSE, <<>>, OcrFails)
        : x \in {".txt", ".MD"}, z \in Sizes, d \in SeqsUpTo(ByteValues, MaxBytes) }
    \cup { Document(".txt", st, FALSE, 3, <<65>>, FALSE, <<>>, OcrFails)
             : st \in {"missing", "directory", "unreadable"} }
    \cup { Document(".md", "file", TRUE, 3, <<65>>, FALSE, <<>>, OcrFails) }

PdfDocuments ==
    { Document(".pdf", "file", FALSE, z, <<>>, TRUE, ps, OcrFails)
        : z \in Sizes, ps \in SeqsUpTo(Pages, MaxPages) }
    \cup { Document(".PDF", "file", v, 3, <<>>, o, <<TextPage>>, OcrFails)
             : v \in BOOLEAN, o \in BOOLEAN }
    \cup { Document(".pdf", "missing", FALSE, 3, <<>>, FALSE, <<>>, OcrFails) }
    \cup { Document(".pdf", "file", FALSE, 3, <<>>, TRUE,
                     <<TextPage, pg, TextPage>>, OcrFails)
             : pg \in { q \in Pages : Strip(q.text) = <<>> } }

ImageDocuments ==
    { Document(x, "file", FALSE, z, <<>>, FALSE, <<>>, r)
        : x \in {".png", ".JPG"}, z \in Sizes, r \in OcrRuns }
    \cup { Document(x, "file", TRUE, 3, <<>>, FALSE, <<>>, [kind |-> "stdout", out |-> <<104, 105>>])
             : x \in {".jpeg", ".gif"} }
    \cup { Document(".jpg", "missing", FALSE, 3, <<>>, FALSE, <<>>, OcrFails) }

OtherDocuments ==
    { Document(x, st, FALSE, z, <<65>>, FALSE, <<>>, OcrFails)
        : x \in {".exe", "", ".docx"}, st \in {"file", "missing"}, z \in Sizes }
    \cup { Document(".exe", "directory", FALSE, MaxSize + 1, <<>>, FALSE, <<>>, OcrFails) }

Documents == TextDocuments \cup PdfDocuments \cup ImageDocuments \cup OtherDocuments

\* a page without a text layer whose OCR run never exits
StuckPage == Page(<<>>, OcrNeverExits, "written")

\* files on which the OCR tool never exits
StuckDocuments ==
    { Document(".png", "file", FALSE, 3, <<>>, FALSE, <<>>, OcrNeverExits) }
    \cup { Document(".pdf", "file", FALSE, 3, <<>>, TRUE, ps, OcrFails)
             : ps \in { <<StuckPage>>, <<TextPage, StuckPage>>, <<StuckPage, TextPage>>,
                        <<Page(<<>>, OcrFails, "written"), StuckPage>>,
                        <<Page(<<>>, OcrFails, "write_fails"), StuckPage>> } }

\* ---- classification ------------------------------------------------------------

\* str.lower() on the suffixes of the model
Lower(suffix) ==
    CASE suffix = ".MD"  -> ".md"
      [] suffix = ".PDF" -> ".pdf"
      [] suffix = ".JPG" -> ".jpg"
      [] OTHER           -> suffix

type_map ==
    [x \in {".pdf", ".txt", ".md", ".jpg", ".jpeg", ".png", ".gif"} |->
        CASE x = ".pdf"  -> "application/pdf"
          [] x = ".txt"  -> "text/plain"
          [] x = ".md"   -> "text/plain"
          [] x = ".jpg"  -> "image/jpeg"
          [] x = ".jpeg" -> "image/jpeg"
          [] x = ".png"  -> "image/png"
          [] x = ".gif"  -> "image/gif"]

\* a plausible slip: the suffix looked up as written, not lower-cased
detect_content_type_case_sensitive(d) ==
    IF d.suffix \in DOMAIN type_map THEN type_map[d.suffix] ELSE "application/octet-stream"

detect_content_type(d) ==
    LET suffix == Lower(d.suffix)
    IN  IF suffix \in DOMAIN type_map THEN type_map[suffix] ELSE "application/octet-stream"

\* self.supported_types: content type -> extractor
Registry ==
    [t \in {"application/pdf", "image/jpeg", "image/png", "image/gif", "text/plain"} |->
        CASE t = "application/pdf" -> "_process_pdf"
          [] t = "text/plain"      -> "_process_text"
          [] OTHER                 -> "_process_image"]

\* d with key k set to v
With(d, k, v) == (k :> v) @@ d

\* what an extractor or a helper ends in: a value it returns or an exception it
\* raises, and the number of OCR runs it made
\* in the place of an exception class: the call does not return, no except
\* clause and no finally clause of its callers runs
NeverReturns == "NeverReturns"

\* timeout argument of subprocess.run in _ocr_image: none is passed
OcrTimeout == None

Returns(v, n) == [raised |-> None, value |-> v, ocr |-> n]
Raises(e, n) == [raised |-> e, value |-> NoneValue, ocr |-> n]

\* what else an extractor did: the encodings it opened the file with, and the
\* temporary files it created and left behind
Reads(r) == IF "reads" \in DOMAIN r THEN r.reads ELSE <<>>
Created(r) == IF "created" \in DOMAIN r THEN r.created ELSE 0
Left(r) == IF "left" \in DOMAIN r THEN r.left ELSE 0
Temp(r, created, left) == With(With(r, "created", created), "left", left)

\* the exception open() or stat() raises on the file, or None
AccessError(d) ==
    CASE d.state = "missing"    -> "FileNotFoundError"
      [] d.state = "directory"  -> "IsADirectoryError"
      [] d.state = "unreadable" -> "PermissionError"
      [] OTHER                  -> None

\* ---- extractors -----------------------------------------------------------------

\* an error message: a fixed text and the value formatted into it
Err(text, arg) == [text |-> text, arg |-> arg]

\* f'text_{encoding}'
MethodOf(encoding) == IF encoding = "latin-1" THEN "text_latin-1" ELSE "text_cp1252"

\* a plausible slip: the fallback reports the confidence of a direct read
DecodeWithFallback_full_confidence(d, encodings) ==
    LET r == Decode(Head(encodings), d.data)
    IN  [success |-> TRUE, text |-> r.text, text_length |-> Len(r.text),
         confidence |-> "1.0", method |-> MethodOf(Head(encodings)),
         warning |-> Err("Used {} encoding", Head(encodings))]

\* result of _process_text for the first encoding of `encodings` that decodes
RECURSIVE DecodeWithFallback(_, _)
DecodeWithFallback(d, encodings) ==
    IF encodings = <<>>
    THEN [success |-> FALSE,
          error |-> Err("Unable to decode text file with any supported encoding", "")]
    ELSE LET r == Decode(Head(encodings), d.data)
         IN  IF r.ok
             THEN [success |-> TRUE, text |-> r.text, text_length |-> Len(r.text),
                   confidence |-> "0.9", method |-> MethodOf(Head(encodings)),
                   warning |-> Err("Used {} encoding", Head(encodings))]
             ELSE DecodeWithFallback(d, Tail(encodings))

\* the encodings of `encodings` the fallback loop opens the file with: each in
\* turn up to the first that decodes
RECURSIVE EncodingsRead(_, _)
EncodingsRead(d, encodings) ==
    IF encodings = <<>> THEN <<>>
    ELSE IF Decode(Head(encodings), d.data).ok THEN <<Head(encodings)>>
    ELSE <<Head(encodings)>> \o EncodingsRead(d, Tail(encodings))

\* a plausible slip: the Windows code page tried before latin-1
process_text_cp1252_first(d) ==
    IF AccessError(d) # None THEN With(Raises(AccessError(d), 0), "reads", <<"utf-8">>)
    ELSE LET u == Decode("utf-8", d.data)
         IN  IF u.ok
             THEN With(Returns([success |-> TRUE, text |-> u.text,
                                text_length |-> Len(u.text),
                                confidence |-> "1.0", method |-> "direct_text"], 0),
                       "reads", <<"utf-8">>)
             ELSE With(Returns(DecodeWithFallback(d, <<"cp1252", "latin-1">>), 0),
                       "reads", <<"utf-8">> \o EncodingsRead(d, <<"cp1252", "latin-1">>))

\* _process_text: its result, and under "reads" the encodings it opened the
\* file with
process_text(d) ==
    IF AccessError(d) # None THEN With(Raises(AccessError(d), 0), "reads", <<"utf-8">>)
    ELSE LET u == Decode("utf-8", d.data)
         IN  IF u.ok
             THEN With(Returns([success |-> TRUE, text |-> u.text,
                                text_length |-> Len(u.text),
                                confidence |-> "1.0", method |-> "direct_text"], 0),
                       "reads", <<"utf-8">>)
             ELSE With(Returns(DecodeWithFallback(d, <<"latin-1", "cp1252">>), 0),
                       "reads", <<"utf-8">> \o EncodingsRead(d, <<"latin-1", "cp1252">>))

\* _ocr_image on an image whose OCR run is `run`
ocr_image(run) ==
    CASE run.kind = "stdout"     -> Returns(Strip(run.out), 1)
      [] run.kind = "exit_error" -> Returns(<<>>, 1)
      [] run.kind = "raises"     -> Raises("OSError", 1)
      [] run.kind = "never_exits" ->
            IF OcrTimeout = None THEN Raises(NeverReturns, 1)
                                 ELSE Raises("TimeoutExpired", 1)

process_image(d) ==
    IF ~ tesseract_available
    THEN Returns([success |-> FALSE,
                  error |-> Err("OCR requires Tesseract (install tesseract-ocr)", "")], 0)
    ELSE LET r == ocr_image(d.ocr)
         IN  IF r.raised = None
             THEN Returns([success |-> TRUE, text |-> r.value, text_length |-> Len(r.value),
                           confidence |-> "0.8", method |-> "tesseract_ocr"], r.ocr)
             ELSE IF r.raised = NeverReturns THEN r
             ELSE Returns([success |-> FALSE,
                           error |-> Err("OCR processing failed: ", r.raised)], r.ocr)

\* f"--- Page {page_num + 1} ---\n" and f"--- Page {page_num + 1} (OCR) ---\n"
PageMarker(page_num, byOcr) ==
    <<45, 45, 45, 32, 80, 97, 103, 101, 32>> \o Str(page_num + 1)
    \o (IF byOcr THEN <<32, 40, 79, 67, 82, 41>> ELSE <<>>)
    \o <<32, 45, 45, 45, 10>>

\* what a pass of the page loop ends in: the exception it raises or the parts
\* it adds, its OCR runs, the temporary files it created and those it left
PageResult(raised, value, ocr, created, left) ==
    [raised |-> raised, value |-> value, ocr |-> ocr, created |-> created, left |-> left]

\* one pass of the page loop: what the page adds to text_parts
PageParts(page, page_num) ==
    IF Strip(page.text) # <<>>
    THEN PageResult(None, <<PageMarker(page_num, FALSE) \o page.text>>, 0, 0, 0)
    ELSE IF tesseract_available
    THEN IF page.raster = "write_fails"
         THEN PageResult("OSError", NoneValue, 0, 1, 1)
         ELSE LET o == ocr_image(page.ocr)
              IN  IF o.raised = NeverReturns
                  THEN PageResult(NeverReturns, NoneValue, o.ocr, 1, 1)
                  ELSE IF o.raised # None THEN PageResult(o.raised, NoneValue, o.ocr, 1, 0)
                  ELSE IF Strip(o.value) # <<>>
                  THEN PageResult(None, <<PageMarker(page_num, TRUE) \o o.value>>, o.ocr, 1, 0)
                  ELSE PageResult(None, <<>>, o.ocr, 1, 0)
    ELSE PageResult(None, <<>>, 0, 0, 0)

\* text_parts and the OCR count of a pass followed by the passes after it; a
\* pass that raises ends the loop and the later passes are not made
Chain(this, rest) ==
    IF this.raised # None THEN this
    ELSE IF rest.raised # None THEN Raises(rest.raised, this.ocr + rest.ocr)
    ELSE Returns(this.value \o rest.value, this.ocr + rest.ocr)

\* for page_num in range(page_count), from page_num on
RECURSIVE PageLoop(_, _)
PageLoop(pages, page_num) ==
    IF pages = <<>> THEN Returns(<<>>, 0)
    ELSE Chain(PageParts(Head(pages), page_num), PageLoop(Tail(pages), page_num + 1))

\* the passes the page loop makes: all of them, or those up to the first one
\* that raises
PassesMade(pages) ==
    { n \in 1 .. Len(pages) :
        \A k \in 1 .. (n - 1) : PageParts(pages[k], k - 1).raised = None }

\* temporary files the page loop creates, and those that exist when it ends
TempsCreated(pages) ==
    Cardinality({ n \in PassesMade(pages) : PageParts(pages[n], n - 1).created = 1 })
TempsLeft(pages) ==
    Cardinality({ n \in PassesMade(pages) : PageParts(pages[n], n - 1).left = 1 })

process_pdf_pymupdf(d) ==
    IF AccessError(d) # None \/ ~ d.opens
    THEN Returns([success |-> FALSE,
                  error |-> Err("PyMuPDF processing failed: ", "FileDataError")], 0)
    ELSE LET r == PageLoop(d.pages, 0)
         IN  IF r.raised = NeverReturns
             THEN Temp(r, TempsCreated(d.pages), TempsLeft(d.pages))
             ELSE IF r.raised # None
             THEN Temp(Returns([success |-> FALSE,
                                error |-> Err("PyMuPDF processing failed: ", r.raised)],
                               r.ocr),
                       TempsCreated(d.pages), TempsLeft(d.pages))
             ELSE LET full_text == Join(r.value)
                  IN  Temp(Returns([success |-> TRUE, text |-> full_text,
                                    text_length |-> Len(full_text), confidence |-> "0.9",
                                    method |-> "pymupdf", pages |-> Len(d.pages)], r.ocr),
                           TempsCreated(d.pages), TempsLeft(d.pages))

process_pdf_fallback(d) ==
    Returns([success |-> FALSE,
             error |-> Err("PDF processing requires PyMuPDF (pip install PyMuPDF)", "")], 0)

\* a plausible slip: the PDF library used without consulting the flag
process_pdf_unguarded(d) == process_pdf_pymupdf(d)

process_pdf(d) ==
    IF pymupdf_available THEN process_pdf_pymupdf(d) ELSE process_pdf_fallback(d)

\* await processor(file_path)
Processor(name, d) ==
    CASE name = "_process_pdf"   -> process_pdf(d)
      [] name = "_process_text"  -> process_text(d)
      [] name = "_process_image" -> process_image(d)

\* ---- process_document -----------------------------------------------------------

\* file_path.stat() after the extractor has returned
StatError(d) ==
    IF d.state = "missing" \/ d.vanishes THEN "FileNotFoundError" ELSE None

\* a plausible slip: a handler for one class of errors only
ExceptException_value_error(exc) == exc \in {"ValueError", "UnicodeDecodeError"}

\* the classes that derive from BaseException and not from Exception
BaseExceptionOnly == {"KeyboardInterrupt", "SystemExit", "CancelledError", "GeneratorExit"}

\* `except Exception`: every exception but the BaseException-only ones
ExceptException(exc) == exc \notin BaseExceptionOnly

\* an except clause that reports the error without the elapsed time
Failure_untimed(exc) == [success |-> FALSE, error |-> Err("{}", exc)]

\* the dict the except clause of process_document returns
Failure(exc) ==
    [success |-> FALSE, error |-> Err("{}", exc), processing_time |-> "elapsed"]

\* the try block of process_document: lines 80-103
TryProcess(d) ==
    LET content_type == detect_content_type(d)
    IN  IF content_type \notin supported_types
        THEN [raised |-> None, ocr |-> 0, calls |-> <<>>,
              reads |-> <<>>, created |-> 0, left |-> 0,
              value |-> [success |-> FALSE,
                         error |-> Err("Unsupported file type: ", content_type),
                         processing_time |-> "elapsed"]]
        ELSE LET processor == Registry[content_type]
                 r == Processor(processor, d)
             IN  IF r.raised # None
                 THEN [raised |-> r.raised, ocr |-> r.ocr, calls |-> <<processor>>,
                       reads |-> Reads(r), created |-> Created(r), left |-> Left(r),
                       value |-> NoneValue]
                 ELSE IF StatError(d) # None
                 THEN [raised |-> StatError(d), ocr |-> r.ocr, calls |-> <<processor>>,
                       reads |-> Reads(r), created |-> Created(r), left |-> Left(r),
                       value |-> NoneValue]
                 ELSE [raised |-> None, ocr |-> r.ocr, calls |-> <<processor>>,
                       reads |-> Reads(r), created |-> Created(r), left |-> Left(r),
                       value |-> With(With(With(r.value,
                                    "processing_time", "elapsed"),
                                    "file_size", d.size),
                                    "content_type", content_type)]

\* process_document(file_path): lines 67-111
process_document(d) ==
    LET t == TryProcess(d)
    IN  IF t.raised \notin {None, NeverReturns} /\ ExceptException(t.raised)
        THEN [t EXCEPT !.raised = None, !.value = Failure(t.raised)]
        ELSE t

\* ---- validate_file ----------------------------------------------------------------

\* f'{size / (1024*1024):.1f}' in tenths of a megabyte: the quotient is exact
\* in a float and the format rounds it to the nearest tenth, a tie to the even
\* one
MegabyteTenths(size) ==
    LET part   == (size % 1048576) * 10
        tenths == (size \div 1048576) * 10 + part \div 1048576
        rest   == part % 1048576
    IN  IF 2 * rest > 1048576 THEN tenths + 1
        ELSE IF 2 * rest < 1048576 THEN tenths
        ELSE IF tenths % 2 = 0 THEN tenths ELSE tenths + 1

\* a plausible slip: a file of exactly the maximum size rejected
validate_file_inclusive(d) ==
    LET content_type == detect_content_type(d)
    IN  IF d.state = "missing"
        THEN [valid |-> FALSE, error |-> Err("File does not exist", "")]
        ELSE IF d.state = "directory"
        THEN [valid |-> FALSE, error |-> Err("Path is not a file", "")]
        ELSE IF content_type \notin supported_types
        THEN [valid |-> FALSE, error |-> Err("Unsupported file type: ", content_type),
              supported_types |-> supported_types]
        ELSE IF d.size >= MaxSize
        THEN [valid |-> FALSE,
              error |-> Err("File too large: {}MB (max: 50MB)", MegabyteTenths(d.size))]
        ELSE [valid |-> TRUE, content_type |-> content_type, size |-> d.size]

\* validate_file(file_path): lines 277-321
validate_file(d) ==
    LET content_type == detect_content_type(d)
    IN  IF d.state = "missing"
        THEN [valid |-> FALSE, error |-> Err("File does not exist", "")]
        ELSE IF d.state = "directory"
        THEN [valid |-> FALSE, error |-> Err("Path is not a file", "")]
        ELSE IF content_type \notin supported_types
        THEN [valid |-> FALSE, error |-> Err("Unsupported file type: ", content_type),
              supported_types |-> supported_types]
        ELSE IF d.size > MaxSize
        THEN [valid |-> FALSE,
              error |-> Err("File too large: {}MB (max: 50MB)", MegabyteTenths(d.size))]
        ELSE [valid |-> TRUE, content_type |-> content_type, size |-> d.size]

\* ---- the pipeline's operations ----------------------------------------------------

IngInit ==
    /\ tesseract_available \in BOOLEAN
    /\ pymupdf_available \in BOOLEAN
    /\ supported_types = DOMAIN Registry
    /\ probes = <<[probe |-> "_check_tesseract", found |-> tesseract_available],
                  [probe |-> "_check_pymupdf", found |-> pymupdf_available]>>
    /\ failed_before = FALSE
    /\ op = None
    /\ running = None
    /\ doc = NoneValue
    /\ outcome = NoneValue
    /\ escaped = None
    /\ extractor_calls = <<>>
    /\ ocr_calls = 0
    /\ text_reads = <<>>
    /\ temp_created = 0
    /\ temp_left = 0
    /\ upload_pc = [u \in Uploads |-> "idle"]
    /\ upload_type = [u \in Uploads |-> None]
    /\ upload_result = [u \in Uploads |-> NoneValue]
    /\ upload_status = [u \in Uploads |-> 0]
    /\ upload_response = [u \in Uploads |-> NoneValue]

pipelineVars == <<tesseract_available, pymupdf_available, supported_types, probes>>

\* the call ended in a failure: an exception, or a result that says so
CallFailed(raised, value) ==
    \/ raised # None
    \/ ("success" \in DOMAIN value /\ ~ value["success"])
    \/ ("valid" \in DOMAIN value /\ ~ value["valid"])

\* a plausible slip: a capability is written off once its tool has failed
ProcessDocument_writes_off(d) ==
    /\ op = None
    /\ \E r \in {process_document(d)} :
        /\ op' = "process_document"
        /\ doc' = d
        /\ outcome' = r.value
        /\ escaped' = r.raised
        /\ extractor_calls' = r.calls
        /\ ocr_calls' = r.ocr
        /\ text_reads' = r.reads
        /\ temp_created' = r.created
        /\ temp_left' = r.left
        /\ failed_before' = (failed_before \/ CallFailed(r.raised, r.value))
        /\ tesseract_available' =
              (tesseract_available /\ ~ (r.ocr > 0 /\ CallFailed(r.raised, r.value)))
        /\ UNCHANGED <<pymupdf_available, supported_types, probes, running,
                       uploadVars, genVars, curVars, sharedVars>>

\* await pipeline.process_document(d); subprocess.run blocks the thread that
\* runs the coroutine, so a call that does not return is never left
ProcessDocument(d) ==
    /\ op = None
    /\ running = None
    /\ \E r \in {process_document(d)} :
        /\ doc' = d
        /\ extractor_calls' = r.calls
        /\ ocr_calls' = r.ocr
        /\ text_reads' = r.reads
        /\ temp_created' = r.created
        /\ temp_left' = r.left
        /\ IF r.raised = NeverReturns
              THEN /\ running' = "process_document"
                   /\ UNCHANGED <<op, outcome, escaped, failed_before>>
              ELSE /\ op' = "process_document"
                   /\ outcome' = r.value
                   /\ escaped' = r.raised
                   /\ failed_before' = (failed_before \/ CallFailed(r.raised, r.value))
                   /\ UNCHANGED running
        /\ UNCHANGED <<pipelineVars, uploadVars, genVars, curVars, sharedVars>>

\* pipeline.validate_file(d)
ValidateFile(d) ==
    /\ op = None
    /\ running = None
    /\ op' = "validate_file"
    /\ doc' = d
    /\ outcome' = validate_file(d)
    /\ escaped' = None
    /\ extractor_calls' = <<>>
    /\ ocr_calls' = 0
    /\ text_reads' = <<>>
    /\ temp_created' = 0
    /\ temp_left' = 0
    /\ failed_before' = (failed_before \/ CallFailed(None, validate_file(d)))
    /\ UNCHANGED <<pipelineVars, running, uploadVars, genVars, curVars, sharedVars>>

\* ---- upload_document (backend/main.py) ----------------------------------------

\* allowed_types of upload_document
allowed_types ==
    {"application/pdf", "image/jpeg", "image/png", "image/gif", "text/plain"}

\* content types a client may declare for its upload: one that is allowed and
\* one that is not
DeclaredTypes == {"application/pdf", "application/zip"}

\* files as upload_document has written them to the upload directory: files
\* of 3 bytes with at most one character or one page
UploadedFiles ==
    { d \in Documents : /\ d.state = "file" /\ ~ d.vanishes /\ d.size = 3
                         /\ Len(d.data) <= 1 /\ Len(d.pages) <= 1 }

\* the body upload_document answers with once process_document has returned
\* res: lines 483-490 (the file name, made of a timestamp, is left out)
UploadResponse(res, d) ==
    [success         |-> TRUE,
     extracted_text  |-> Get(res, "text", <<>>),
     confidence      |-> Get(res, "confidence", "0"),
     processing_time |-> Get(res, "processing_time", "0"),
     file_size       |-> d.size]

\* the HTTPException(status_code=500, detail=str(e)) of the except clause
UploadError(exc) == [detail |-> Err("{}", exc)]

\* POST /api/upload-document of request u with a file declared as ct: lines
\* 462-476.  The HTTPException of the type check is raised inside the try
\* block and caught by its `except Exception`.  A request whose type passes
\* names its file and awaits file.read(), which gives the event loop to the
\* other requests.
UploadDocument(u, ct) ==
    /\ upload_pc[u] = "idle"
    /\ running = None
    /\ upload_type' = [upload_type EXCEPT ![u] = ct]
    /\ IF ct \notin allowed_types
          THEN /\ upload_pc' = [upload_pc EXCEPT ![u] = "answered"]
               /\ upload_status' = [upload_status EXCEPT ![u] = 500]
               /\ upload_response' =
                     [upload_response EXCEPT ![u] = UploadError("HTTPException")]
          ELSE /\ upload_pc' = [upload_pc EXCEPT ![u] = "reading"]
               /\ UNCHANGED <<upload_status, upload_response>>
    /\ UNCHANGED <<upload_result, pipelineVars, failed_before, op, running, doc, outcome,
                   escaped, extractor_calls, ocr_calls, text_reads, temp_created,
                   temp_left, genVars, curVars, sharedVars>>

\* file.read() of request u returns the content, which becomes the file d in
\* the upload directory when it can be written there, and the request runs to
\* its answer: lines 476-494.  process_document does not give the event loop
\* away.
UploadRead(u, d, saved) ==
    /\ upload_pc[u] = "reading"
    /\ running = None
    /\ UNCHANGED upload_type
    /\ IF ~ saved
          THEN /\ upload_pc' = [upload_pc EXCEPT ![u] = "answered"]
               /\ upload_status' = [upload_status EXCEPT ![u] = 500]
               /\ upload_response' = [upload_response EXCEPT ![u] = UploadError("OSError")]
               /\ UNCHANGED <<upload_result, op, running, doc, outcome, escaped,
                              extractor_calls, ocr_calls, text_reads, temp_created,
                              temp_left, failed_before>>
          ELSE \E r \in {process_document(d)} :
               /\ doc' = d
               /\ extractor_calls' = r.calls
               /\ ocr_calls' = r.ocr
               /\ text_reads' = r.reads
               /\ temp_created' = r.created
               /\ temp_left' = r.left
               /\ IF r.raised = NeverReturns
                     THEN /\ running' = "process_document"
                          /\ UNCHANGED <<op, outcome, escaped, failed_before, upload_pc,
                                         upload_result, upload_status, upload_response>>
                     ELSE /\ op' = "process_document"
                          /\ outcome' = r.value
                          /\ escaped' = r.raised
                          /\ failed_before' = (failed_before \/ CallFailed(r.raised, r.value))
                          /\ upload_pc' = [upload_pc EXCEPT ![u] = "answered"]
                          /\ upload_result' =
                                [upload_result EXCEPT
                                    ![u] = [raised |-> r.raised, value |-> r.value]]
                          /\ upload_status' =
                                [upload_status EXCEPT
                                    ![u] = IF r.raised = None THEN 200 ELSE 500]
                          /\ upload_response' =
                                [upload_response EXCEPT
                                    ![u] = IF r.raised = None
                                              THEN UploadResponse(r.value, d)
                                              ELSE UploadError(r.raised)]
                          /\ UNCHANGED running
    /\ UNCHANGED <<pipelineVars, genVars, curVars, sharedVars>>

\* the answer of request u has been sent; nothing of the request is kept
UploadAnswered(u) ==
    /\ upload_pc[u] = "answered"
    /\ upload_pc' = [upload_pc EXCEPT ![u] = "idle"]
    /\ upload_type' = [upload_type EXCEPT ![u] = None]
    /\ upload_result' = [upload_result EXCEPT ![u] = NoneValue]
    /\ upload_status' = [upload_status EXCEPT ![u] = 0]
    /\ upload_response' = [upload_response EXCEPT ![u] = NoneValue]
    /\ op' = None
    /\ doc' = NoneValue
    /\ outcome' = NoneValue
    /\ escaped' = None
    /\ extractor_calls' = <<>>
    /\ ocr_calls' = 0
    /\ text_reads' = <<>>
    /\ temp_created' = 0
    /\ temp_left' = 0
    /\ UNCHANGED <<pipelineVars, failed_before, running, genVars, curVars, sharedVars>>

\* the caller has taken what the call returned; the pipeline keeps nothing of it
Deliver ==
    /\ op # None
    /\ op' = None
    /\ doc' = NoneValue
    /\ outcome' = NoneValue
    /\ escaped' = None
    /\ extractor_calls' = <<>>
    /\ ocr_calls' = 0
    /\ text_reads' = <<>>
    /\ temp_created' = 0
    /\ temp_left' = 0
    /\ UNCHANGED <<pipelineVars, failed_before, running, uploadVars, genVars, curVars,
                   sharedVars>>

IngNext ==
    \/ \E d \in Documents : ProcessDocument(d)
    \/ \E d \in Documents : ValidateFile(d)
    \/ Deliver

\* the upload endpoint of the backend at work
UploadNext ==
    \/ \E u \in Uploads, ct \in DeclaredTypes : UploadDocument(u, ct)
    \/ \E u \in Uploads, d \in UploadedFiles, saved \in BOOLEAN : UploadRead(u, d, saved)
    \/ \E u \in Uploads : UploadAnswered(u)

\* the pipeline given files on which the OCR tool may never exit
OcrNext ==
    \/ \E d \in Documents \cup StuckDocuments : ProcessDocument(d)
    \/ Deliver

(***************************************************************************)
(* Prompt curation: curate_prompt of the curator service, and the          *)
(* curate_prompt wrapper of a client of that service                       *)
(***************************************************************************)

CURATOR_MODEL == "mistral-7b"

\* prompts and instructions handed to curate_prompt: "q", " q ", and "", " ", "b"
Prompts == {<<113>>, <<32, 113, 32>>}
Instructions == {<<>>, <<32>>, <<98>>}

\* the f-string handed to generate: the template chosen and the values in it
curation_prompt(prompt, instruction) ==
    IF Strip(instruction) # <<>>
    THEN [template |-> "instructed", instruction |-> instruction, prompt |-> prompt]
    ELSE [template |-> "default", instruction |-> <<>>, prompt |-> prompt]

\* m occurs in t at position i
OccursAt(t, m, i) == i + Len(m) - 1 <= Len(t) /\ SubSeq(t, i, i + Len(m) - 1) = m

\* m in t
Contains(t, m) == \E i \in 1 .. Len(t) : OccursAt(t, m, i)

\* t.split(m)[-1] for a t that contains m
AfterLast(t, m) ==
    LET i == CHOOSE k \in 1 .. Len(t) :
                 OccursAt(t, m, k) /\ \A j \in (k + 1) .. Len(t) : ~ OccursAt(t, m, j)
    IN  SubSeq(t, i + Len(m), Len(t))

\* refined_text of lines 120-124
Refine(text) ==
    LET refined_text == Strip(text)
    IN  IF Contains(refined_text, Marker) THEN Strip(AfterLast(refined_text, Marker))
        ELSE refined_text

\* the dict of lines 128-134
Curated(prompt, refined_text) ==
    [refined         |-> refined_text,
     original_length |-> Len(prompt),
     refined_length  |-> Len(refined_text),
     curator_model   |-> CURATOR_MODEL,
     success         |-> TRUE]

\* the dict of lines 140-148
Fallback(prompt, exc) ==
    [refined         |-> prompt,
     original_length |-> Len(prompt),
     refined_length  |-> Len(prompt),
     curator_model   |-> CURATOR_MODEL,
     success         |-> FALSE,
     error           |-> Err("{}", exc),
     fallback        |-> TRUE]

\* a plausible slip: only the two documented error classes are caught
CurateExcept_documented(exc) == exc \in {"ConnectionError", "ValueError"}

\* `except Exception` of curate_prompt catches exc
CurateExcept(exc) == exc \notin BaseExceptionOnly

\* what the try block of curate_prompt ends in once generate has ended:
\* the exception it raises, or None
CurateRaised ==
    IF pc = "raised" THEN error
    ELSE IF result = NoneValue THEN "TypeError"
    ELSE None

\* threads of one process that use the one adapter at the same time
Threads == {1, 2}

\* a request thread of the service that has no request: threaded=True of
\* app.run gives every request a thread of its own
NoRequest ==
    [pc |-> "idle", prompt |-> NoneValue, instruction |-> NoneValue,
     failure |-> None, result |-> NoneValue, escaped |-> None, answer |-> NoneValue]

CurInit ==
    /\ cur_pc = "idle"
    /\ cur_prompt = NoneValue
    /\ cur_instruction = NoneValue
    /\ cur_curation_prompt = NoneValue
    /\ cur_generate_calls = 0
    /\ cur_posts = 0
    /\ cur_result = NoneValue
    /\ cur_escaped = None
    /\ endpoint_calls = [t \in Threads |-> NoRequest]
    /\ client_pc = "idle"
    /\ client_prompt = NoneValue
    /\ client_reply = NoneValue
    /\ client_returned = NoneValue
    /\ client_escaped = None

\* curate_prompt(p, i) is entered, builds the curation prompt and calls
\* curator_adapter.generate without a model argument: lines 87-118
Curate(p, i) ==
    /\ cur_pc \in {"idle", "returned", "raised"}
    /\ Enter(NoModel)
    /\ cur_pc' = "generating"
    /\ cur_prompt' = p
    /\ cur_instruction' = i
    /\ cur_curation_prompt' = curation_prompt(p, i)
    /\ cur_generate_calls' = 1
    /\ cur_posts' = 0
    /\ cur_result' = NoneValue
    /\ cur_escaped' = None
    /\ UNCHANGED <<endpointVars, clientVars, ingVars, sharedVars>>

\* how curate_prompt ends once generate has ended with exception exc or, for
\* exc = None, with a result: lines 120-148
CurateOutcome(exc) ==
    IF exc = None
    THEN [pc |-> "returned", escaped |-> None,
          value |-> Curated(cur_prompt, Refine(result.text))]
    ELSE IF CurateExcept(exc)
    THEN [pc |-> "returned", escaped |-> None, value |-> Fallback(cur_prompt, exc)]
    ELSE [pc |-> "raised", escaped |-> exc, value |-> NoneValue]

\* the same two for a curate_prompt(p, ...) call of a request thread, whose
\* generate call ended with the locals c
CallRaised(c) ==
    IF c.pc = "raised" THEN c.error
    ELSE IF c.result = NoneValue THEN "TypeError"
    ELSE None

CallOutcome(p, c) ==
    IF CallRaised(c) = None
    THEN [pc |-> "returned", escaped |-> None,
          value |-> Curated(p, Refine(c.result.text))]
    ELSE IF CurateExcept(CallRaised(c))
    THEN [pc |-> "returned", escaped |-> None, value |-> Fallback(p, CallRaised(c))]
    ELSE [pc |-> "raised", escaped |-> CallRaised(c), value |-> NoneValue]

\* a plausible slip: a failed generation is tried once more before falling back
CurateReturn_retry ==
    /\ cur_pc = "generating"
    /\ pc \in {"returned", "raised"}
    /\ cur_posts' = cur_posts + posts
    /\ IF pc = "raised" /\ cur_generate_calls < 2
          THEN /\ Enter(NoModel)
               /\ cur_generate_calls' = cur_generate_calls + 1
               /\ UNCHANGED <<cur_pc, cur_result, cur_escaped>>
          ELSE LET e == CurateOutcome(CurateRaised)
               IN  /\ cur_pc' = e.pc
                   /\ cur_result' = e.value
                   /\ cur_escaped' = e.escaped
                   /\ UNCHANGED <<genVars, cur_generate_calls>>
    /\ UNCHANGED <<cur_prompt, cur_instruction, cur_curation_prompt, endpointVars,
                   clientVars, ingVars, sharedVars>>

\* generate has returned or raised and curate_prompt runs to its end:
\* lines 120-148
CurateReturn ==
    LET e == CurateOutcome(CurateRaised)
    IN  /\ cur_pc = "generating"
        /\ pc \in {"returned", "raised"}
        /\ cur_posts' = cur_posts + posts
        /\ cur_pc' = e.pc
        /\ cur_result' = e.value
        /\ cur_escaped' = e.escaped
        /\ UNCHANGED <<cur_prompt, cur_instruction, cur_curation_prompt,
                       cur_generate_calls, endpointVars, clientVars, genVars, ingVars,
                       sharedVars>>

\* ---- curate_endpoint: POST /api/curate ----------------------------------------

\* a JSON value of a request: a string, or a value of another type
JsonString(t) == [str |-> TRUE, text |-> t]
JsonOther == [str |-> FALSE, text |-> <<>>]

\* bodies of the requests the endpoint is sent: one that is not JSON, null, a
\* list, and objects; {"prompt": " q ", "instruction": "b"} is what the
\* client's wrapper posts for curate_prompt(" q ", "b")
CurateRequests ==
    { [shape |-> "unparsable", fields |-> <<>>],
      [shape |-> "null", fields |-> <<>>],
      [shape |-> "list", fields |-> <<>>],
      [shape |-> "dict", fields |-> [instruction |-> JsonString(<<98>>)]],
      [shape |-> "dict", fields |-> [prompt |-> JsonOther]],
      [shape |-> "dict", fields |-> [prompt |-> JsonString(<<32>>)]],
      [shape |-> "dict", fields |-> [prompt |-> JsonString(<<113>>),
                                     instruction |-> JsonOther]],
      [shape |-> "dict", fields |-> [prompt |-> JsonString(<<113>>)]],
      [shape |-> "dict", fields |-> [prompt |-> JsonString(<<32, 113, 32>>),
                                     instruction |-> JsonString(<<98>>)]],
      [shape |-> "dict", fields |-> [prompt |-> JsonString(<<32, 113, 32>>),
                                     instruction |-> JsonString(<<32>>)]] }

\* the longest prompt validate_request_data accepts
MaxPromptLength == 10000

\* validate_request_data(data): lines 45-74
validate_request_data(data) ==
    IF data.shape # "dict"
    THEN [valid |-> FALSE, error |-> "Request data must be JSON object"]
    ELSE IF "prompt" \notin DOMAIN data.fields
    THEN [valid |-> FALSE, error |-> "Missing required field 'prompt'"]
    ELSE IF ~ data.fields["prompt"].str
    THEN [valid |-> FALSE, error |-> "Field 'prompt' must be a string"]
    ELSE IF Len(Strip(data.fields["prompt"].text)) = 0
    THEN [valid |-> FALSE, error |-> "Field 'prompt' cannot be empty"]
    ELSE IF Len(data.fields["prompt"].text) > MaxPromptLength
    THEN [valid |-> FALSE, error |-> "Field 'prompt' too long (max 10,000 characters)"]
    ELSE IF "instruction" \in DOMAIN data.fields /\ ~ data.fields["instruction"].str
    THEN [valid |-> FALSE, error |-> "Field 'instruction' must be a string"]
    ELSE [valid |-> TRUE, error |-> ""]

\* jsonify(body), status
Answer(status, body) == [status |-> status, body |-> body]

\* what curate_endpoint answers before it calls curate_prompt, or None when it
\* goes on to call it: lines 173-180 and the except clause of lines 193-198.
\* get_json(force=True) raises BadRequest on a body that is not JSON.
EndpointRefusal(data) ==
    IF data.shape = "unparsable"
    THEN Answer(500, [error |-> "Internal server error", details |-> Err("{}", "BadRequest")])
    ELSE IF data.shape = "null"
    THEN Answer(400, [error |-> "Invalid JSON data"])
    ELSE IF ~ validate_request_data(data).valid
    THEN Answer(400, [error |-> validate_request_data(data).error])
    ELSE NoneValue

\* data['prompt'].strip(): line 183
RequestPrompt(data) == Strip(data.fields["prompt"].text)

\* data.get('instruction', '').strip(): line 184
RequestInstruction(data) == Strip(Get(data.fields, "instruction", JsonString(<<>>)).text)

\* ---- the client's wrapper (web_ui.curate_prompt) -------------------------------

\* bodies the curator service's reply may carry
ClientBodies ==
    { [shape |-> "unparsable", fields |-> <<>>],
      [shape |-> "null", fields |-> <<>>],
      [shape |-> "dict", fields |-> [success |-> TRUE, refined |-> <<104, 105>>]],
      [shape |-> "dict", fields |-> [success |-> TRUE]],
      [shape |-> "dict", fields |-> [success |-> FALSE, refined |-> <<104, 105>>]],
      [shape |-> "dict", fields |-> [refined |-> <<104, 105>>]],
      [shape |-> "dict", fields |-> [error |-> "Internal server error"]] }

ClientStatuses == {200, 201, 400, 500}

\* what the wrapper's POST can meet: requests.post raises (no connection, or
\* the 30 s timeout), or a reply arrives (the body of a reply with a status
\* other than 200 is never read)
ClientReplies ==
    { [kind |-> "connection_error", status |-> 0, body |-> NoBody],
      [kind |-> "timeout", status |-> 0, body |-> NoBody] }
    \cup { [kind |-> "reply", status |-> s, body |-> NoBody] : s \in ClientStatuses \ {200} }
    \cup { [kind |-> "reply", status |-> 200, body |-> b] : b \in ClientBodies }

\* the try block of the wrapper: lines 122-135
client_try(prompt, r) ==
    IF r.kind = "connection_error" THEN Raises("requests.ConnectionError", 0)
    ELSE IF r.kind = "timeout" THEN Raises("requests.Timeout", 0)
    ELSE IF r.status = 200
    THEN IF r.body.shape = "unparsable" THEN Raises("JSONDecodeError", 0)
         ELSE IF r.body.shape = "null" THEN Raises("AttributeError", 0)
         ELSE IF Get(r.body.fields, "success", FALSE)
         THEN Returns(Get(r.body.fields, "refined", prompt), 0)
         ELSE Returns(prompt, 0)
    ELSE Returns(prompt, 0)

\* `except Exception` of the wrapper catches exc
ClientExcept(exc) == exc \notin BaseExceptionOnly

\* curate_prompt(p, instruction) of the client is called and issues its POST
\* with timeout=30: lines 120-127.  The instruction only travels in the
\* request.  The client and the service are separate processes: while the
\* client waits inside requests.post the service takes its own steps.
ClientCurate(p) ==
    /\ client_pc = "idle"
    /\ client_pc' = "awaiting"
    /\ client_prompt' = p
    /\ UNCHANGED <<client_reply, client_returned, client_escaped,
                   serviceVars, endpointVars, genVars, ingVars, sharedVars>>

\* requests.post ends with r and the wrapper runs to its end: lines 127-139
ClientSettle(r) ==
    LET t == client_try(client_prompt, r)
    IN  /\ client_pc = "awaiting"
        /\ client_reply' = r
        /\ IF t.raised = None
              THEN /\ client_returned' = t.value /\ client_escaped' = None
                   /\ client_pc' = "returned"
           ELSE IF ClientExcept(t.raised)
              THEN /\ client_returned' = client_prompt /\ client_escaped' = None
                   /\ client_pc' = "returned"
           ELSE /\ client_returned' = NoneValue /\ client_escaped' = t.raised
                /\ client_pc' = "raised"
        /\ UNCHANGED <<client_prompt, serviceVars, endpointVars, genVars, ingVars,
                       sharedVars>>

\* the caller takes what the wrapper returned
ClientDone ==
    /\ client_pc \in {"returned", "raised"}
    /\ client_pc' = "idle"
    /\ client_prompt' = NoneValue
    /\ client_reply' = NoneValue
    /\ client_returned' = NoneValue
    /\ client_escaped' = None
    /\ UNCHANGED <<serviceVars, endpointVars, genVars, ingVars, sharedVars>>

CurNext ==
    \/ \E p \in Prompts, i \in Instructions : Curate(p, i)
    \/ Post
    \/ Reply
    \/ ConnectionFails
    \/ BackendSilent
    \/ Wake
    \/ CurateReturn

(***************************************************************************)
(* One adapter shared by several callers: concurrent generate calls and    *)
(* the advisory probes                                                     *)
(***************************************************************************)
\* what a POST of a concurrent call can meet: one outcome for each way the
\* try block of generate can end
ThreadOutcomes ==
    { o \in Outcomes :
        \/ o.kind # "reply"
        \/ o.status = 500
        \/ (o.status = 200 /\ o.body.shape = "null")
        \/ (o.status = 200 /\ o.body.shape = "dict"
               /\ o.body.fields \in { [done |-> TRUE], [response |-> <<104, 105>>] }) }

\* the locals of a thread that is not inside generate
NoCall ==
    [pc |-> "idle", model_name |-> None, attempt |-> 0, posts |-> 0,
     history |-> <<>>, result |-> NoneValue, error |-> None]

\* the locals of a call when generate(prompt, model=m) is entered: lines 74-87
Entered(m) ==
    [NoCall EXCEPT !.pc = "attempting",
                   !.model_name = ModelOr(m)]

\* the locals of call c after its attempt ended with outcome o: the rest of the
\* try block and the except clauses, lines 97-140
Settled(c, o) ==
    LET t == TryOutcome(o, json_error_is_request_exception)
        h == Handler(t)
        d == [c EXCEPT !.history = Append(c.history, o)]
    IN  IF o.kind = "no_answer" /\ PostTimeout = None
           THEN [d EXCEPT !.pc = "blocked"]
        ELSE IF t = "return"
           THEN [d EXCEPT !.pc = "returned",
                          !.result = GenerationResult(o.body, c.model_name)]
        ELSE IF h = "none"
           THEN [d EXCEPT !.pc = "raised", !.error = t]
        ELSE IF IsLastAttempt(c.attempt)
           THEN [d EXCEPT !.pc = "raised", !.error = TerminalError(h)]
        ELSE [d EXCEPT !.pc = "sleeping"]

SharedInit ==
    /\ calls = [t \in Threads |-> NoCall]
    /\ probe_op = None
    /\ probe_pc = "idle"
    /\ probe_met = NoneValue
    /\ probe_gets = 0
    /\ probe_returned = NoneValue
    /\ probe_escaped = None

\* thread t calls generate(prompt, model=m) on the shared adapter
CallIn(t, m) ==
    /\ calls[t].pc \in {"idle", "returned", "raised"}
    /\ calls' = [calls EXCEPT ![t] = Entered(m)]
    /\ UNCHANGED <<genVars, ingVars, curVars, probeVars>>

\* the call of thread t issues self.session.post(...): lines 91-95
PostIn(t) ==
    /\ calls[t].pc = "attempting"
    /\ calls' = [calls EXCEPT ![t].posts = @ + 1, ![t].pc = "awaiting"]
    /\ UNCHANGED <<genVars, ingVars, curVars, probeVars>>

\* the attempt of thread t ends with outcome o
SettleIn(t, o) ==
    /\ calls[t].pc = "awaiting"
    /\ calls' = [calls EXCEPT ![t] = Settled(calls[t], o)]
    /\ UNCHANGED <<genVars, ingVars, curVars, probeVars>>

\* an attempt counter kept on the adapter: waking one call advances the loop
\* of every call
WakeIn_shared_counter(t) ==
    /\ calls[t].pc = "sleeping"
    /\ calls' = [u \in Threads |->
                  IF u = t
                     THEN [calls[u] EXCEPT !.attempt = @ + 1, !.pc = "attempting"]
                     ELSE [calls[u] EXCEPT !.attempt = Min(@ + 1, 2)]]
    /\ UNCHANGED <<genVars, ingVars, curVars, probeVars>>

\* time.sleep(delay) returns in thread t and its for loop takes its next
\* element; when the range is exhausted the function ends without a return
\* statement
WakeIn(t) ==
    /\ calls[t].pc = "sleeping"
    /\ calls' = [calls EXCEPT
                  ![t].attempt = @ + 1,
                  ![t].pc = IF calls[t].attempt + 1 \in AttemptRange
                               THEN "attempting" ELSE "returned"]
    /\ UNCHANGED <<genVars, ingVars, curVars, probeVars>>

\* ---- the advisory probes ------------------------------------------------------

\* bodies a reply to GET /api/tags may carry: unparsable text, the JSON value
\* null, or an object listing models
TagBodies ==
    { [shape |-> "unparsable", value |-> NoneValue],
      [shape |-> "null",       value |-> NoneValue],
      [shape |-> "dict",       value |-> [models |-> <<"llama3">>]] }

\* what the GET of a probe can meet (the body of a rejected status is never
\* read)
ProbeOutcomes ==
    { [kind |-> "connection_error", status |-> 0, body |-> NoBody],
      [kind |-> "no_answer",        status |-> 0, body |-> NoBody] }
    \cup { [kind |-> "reply", status |-> s, body |-> NoBody] : s \in ErrorStatuses }
    \cup { [kind |-> "reply", status |-> s, body |-> b] : s \in PassStatuses, b \in TagBodies }

\* the probes whose GET passes a timeout argument: test_connection passes
\* timeout=10, list_models passes none
TimedProbes == {"test_connection"}

\* the GET and raise_for_status() of probe p raise
GetRaises(o, p) ==
    \/ o.kind = "connection_error"
    \/ (o.kind = "no_answer" /\ p \in TimedProbes)
    \/ (o.kind = "reply" /\ RaisesForStatus(o.status))

\* {"models": []}
NoModels == [models |-> <<>>]

\* what test_connection returns: lines 149-156
test_connection(o) == [value |-> ~ GetRaises(o, "test_connection")]

\* what list_models returns: lines 165-171
list_models(o) ==
    IF GetRaises(o, "list_models") \/ o.body.shape = "unparsable"
       THEN NoModels
       ELSE o.body.value

\* a health check calls test_connection, which issues its GET with
\* timeout=10: lines 149-151
TestConnection ==
    /\ probe_pc # "awaiting"
    /\ probe_op' = "test_connection"
    /\ probe_met' = NoneValue
    /\ probe_gets' = 1
    /\ probe_pc' = "awaiting"
    /\ probe_returned' = NoneValue
    /\ probe_escaped' = None
    /\ UNCHANGED <<genVars, ingVars, curVars, calls>>

\* a caller calls list_models, which issues its GET without a timeout:
\* lines 165-166
ListModels ==
    /\ probe_pc # "awaiting"
    /\ probe_op' = "list_models"
    /\ probe_met' = NoneValue
    /\ probe_gets' = 1
    /\ probe_pc' = "awaiting"
    /\ probe_returned' = NoneValue
    /\ probe_escaped' = None
    /\ UNCHANGED <<genVars, ingVars, curVars, calls>>

\* session.get of the probe in flight meets o and the probe runs to its end:
\* lines 151-156 and 166-171.  Without a timeout a backend that never answers
\* leaves session.get blocked.
ProbeSettle(o) ==
    /\ probe_pc = "awaiting"
    /\ probe_met' = o
    /\ IF o.kind = "no_answer" /\ probe_op \notin TimedProbes
          THEN probe_pc' = "blocked" /\ probe_returned' = NoneValue
          ELSE /\ probe_pc' = "returned"
               /\ probe_returned' = IF probe_op = "test_connection"
                                       THEN test_connection(o)
                                       ELSE list_models(o)
    /\ UNCHANGED <<probe_op, probe_gets, probe_escaped, genVars, ingVars, curVars, calls>>

SharedNext ==
    \/ \E t \in Threads, m \in ModelArgs : CallIn(t, m)
    \/ \E t \in Threads : PostIn(t)
    \/ \E t \in Threads, o \in ThreadOutcomes : SettleIn(t, o)
    \/ \E t \in Threads : WakeIn(t)

\* the probes called while one thread is inside generate
ProbeNext ==
    \/ \E m \in ModelArgs : CallIn(1, m)
    \/ PostIn(1)
    \/ \E o \in ThreadOutcomes : SettleIn(1, o)
    \/ WakeIn(1)
    \/ TestConnection
    \/ ListModels
    \/ \E o \in ProbeOutcomes : ProbeSettle(o)

GenNext ==
    \/ \E m \in ModelArgs : Call(m)
    \/ Post
    \/ Reply
    \/ ConnectionFails
    \/ BackendSilent
    \/ Wake

\* the generation client at work, next to a pipeline that is not called
InitGenerate ==
    /\ GenInit /\ IngInit /\ CurInit /\ SharedInit
    /\ tesseract_available = TRUE /\ pymupdf_available = TRUE

SpecGenerate == InitGenerate /\ [][GenNext]_vars

\* the ingestion pipeline at work, next to an adapter that is not called
InitIngest ==
    GenInit /\ IngInit /\ CurInit /\ SharedInit /\ json_error_is_request_exception = TRUE

\* ---- curate_endpoint in the request threads of the service ---------------------

\* what a POST of the generate call of a curation can meet: the connection
\* fails, the backend never answers, a rejected status, a body that is not an
\* object, and a body with a response
CurateOutcomes ==
    { o \in ThreadOutcomes :
        \/ o.kind # "reply"
        \/ o.status = 500
        \/ o.body.shape = "null"
        \/ o.body.has_response }

\* POST /api/curate with body data reaches curate_endpoint in request thread
\* t, which answers at once or strips both fields and calls curate_prompt,
\* which calls curator_adapter.generate without a model argument: lines
\* 152-189 and 87-118.  app.run(threaded=True) runs every request in a thread
\* of its own and nothing locks the adapter, so a request is taken while
\* another is still inside curate_prompt.
CurateEndpoint(t, data) ==
    /\ endpoint_calls[t].pc \in {"idle", "answered", "raised"}
    /\ IF EndpointRefusal(data) # NoneValue
          THEN /\ endpoint_calls' =
                    [endpoint_calls EXCEPT
                       ![t] = [NoRequest EXCEPT !.pc = "answered",
                                                !.answer = EndpointRefusal(data)]]
               /\ UNCHANGED calls
          ELSE /\ endpoint_calls' =
                    [endpoint_calls EXCEPT
                       ![t] = [NoRequest EXCEPT !.pc = "curating",
                                                !.prompt = RequestPrompt(data),
                                                !.instruction = RequestInstruction(data)]]
               /\ calls' = [calls EXCEPT ![t] = Entered(NoModel)]
    /\ UNCHANGED <<serviceVars, clientVars, genVars, ingVars, probeVars>>

\* the generate call of request thread t has returned or raised; curate_prompt
\* runs to its end and curate_endpoint answers with what it returned: lines
\* 120-148 and 189-198.  The endpoint's `except Exception` catches what
\* curate_prompt's own does, so an exception that leaves curate_prompt leaves
\* the endpoint too.  The locals of the generate call end with it.
EndpointReturn(t) ==
    /\ endpoint_calls[t].pc = "curating"
    /\ calls[t].pc \in {"returned", "raised"}
    /\ \E e \in {CallOutcome(endpoint_calls[t].prompt, calls[t])} :
          endpoint_calls' =
              [endpoint_calls EXCEPT
                 ![t].pc = IF e.pc = "returned" THEN "answered" ELSE "raised",
                 ![t].failure = CallRaised(calls[t]),
                 ![t].result = e.value,
                 ![t].escaped = e.escaped,
                 ![t].answer = IF e.pc = "returned" THEN Answer(200, e.value)
                                                    ELSE NoneValue]
    /\ calls' = [calls EXCEPT ![t] = NoCall]
    /\ UNCHANGED <<serviceVars, clientVars, genVars, ingVars, probeVars>>

SpecIngest == InitIngest /\ [][IngNext]_vars

SpecOcr == InitIngest /\ [][OcrNext]_vars

SpecUpload == InitIngest /\ [][UploadNext]_vars

\* curator_adapter = OllamaAdapter(base_url=OLLAMA_HOST, model=CURATOR_MODEL)
\* of the curator service, next to a pipeline that is not called
InitCurate ==
    /\ base_url = "http://localhost:11434"
    /\ model = CURATOR_MODEL
    /\ session_timeout = 120
    /\ json_error_is_request_exception \in BOOLEAN
    /\ pc = "idle"
    /\ prior_call = "none"
    /\ model_name = None
    /\ attempt = 0
    /\ posts = 0
    /\ history = <<>>
    /\ slept = <<>>
    /\ result = NoneValue
    /\ error = None
    /\ IngInit
    /\ CurInit
    /\ SharedInit
    /\ tesseract_available = TRUE
    /\ pymupdf_available = TRUE

SpecCurate == InitCurate /\ [][CurNext]_vars

\* the client's wrapper next to the threaded service: the wrapper's steps,
\* and the request threads of the service answering the requests they are
\* sent through curate_endpoint, each with a generate call of its own on the
\* one adapter and one POST outcome for each way its try block can end
ClientNext ==
    \/ \E p \in Prompts : ClientCurate(p)
    \/ \E r \in ClientReplies : ClientSettle(r)
    \/ ClientDone
    \/ \E t \in Threads, data \in CurateRequests : CurateEndpoint(t, data)
    \/ \E t \in Threads : PostIn(t)
    \/ \E t \in Threads, o \in CurateOutcomes : SettleIn(t, o)
    \/ \E t \in Threads : WakeIn(t)
    \/ \E t \in Threads : EndpointReturn(t)

SpecClient == InitCurate /\ [][ClientNext]_vars

\* one adapter used by the request threads and by the health checks, next to
\* a pipeline that is not called
InitShared ==
    /\ GenInit /\ IngInit /\ CurInit /\ SharedInit
    /\ tesseract_available = TRUE /\ pymupdf_available = TRUE

SpecShared == InitShared /\ [][SharedNext]_vars

SpecProbe == InitShared /\ [][ProbeNext]_vars

(***************************************************************************)
(* Properties of OllamaAdapter.generate, checked under SpecGenerate        *)
(***************************************************************************)

Last(q) == q[Len(q)]

RECURSIVE SumSeq(_)
SumSeq(q) == IF q = <<>> THEN 0 ELSE Head(q) + SumSeq(Tail(q))

\* the attempt did not reach the return statement
Failed(o) == TryOutcome(o, json_error_is_request_exception) # "return"

\* the failures the retry policy names: a connection failure, an HTTP error
\* status, unparsable JSON, a JSON object without the `response` field
NamedFailure(o) ==
    \/ o.kind = "connection_error"
    \/ (o.kind = "reply" /\ o.status \in ErrorStatuses)
    \/ (o.kind = "reply" /\ o.status \in PassStatuses /\ o.body.shape = "unparsable")
    \/ (o.kind = "reply" /\ o.status \in PassStatuses /\ o.body.shape = "dict"
            /\ "response" \notin DOMAIN o.body.fields)

\* the backend replied, and what it sent is not a JSON object with a `response`
MalformedReply(o) ==
    /\ o.kind = "reply"
    /\ o.status \in PassStatuses
    /\ ~ (o.body.shape = "dict" /\ "response" \in DOMAIN o.body.fields)

\* C1: one generate call issues at most 3 POSTs; once three attempts have
\* failed the call has raised (it neither sleeps nor posts again), and a call
\* that fails on the named failures raises after exactly 3 attempts.
C1_AtMostThreeAttempts ==
    /\ posts <= 3
    /\ Len(history) <= posts
    /\ (Len(history) = 3 /\ Failed(Last(history)) /\ Last(history).kind # "no_answer"
            => pc = "raised")
    /\ (pc = "raised" /\ (\A i \in 1 .. Len(history) : NamedFailure(history[i]))
            => posts = 3 /\ Len(history) = 3)

\* C1 witness: three replies of HTTP 500, and the call has raised after 3 POSTs
C1_Witness ==
    /\ pc = "raised"
    /\ posts = 3
    /\ Len(history) = 3
    /\ \A i \in 1 .. 3 : history[i].kind = "reply" /\ history[i].status = 500

\* C2: no wait before attempt 0, 1 s after a failed attempt 0 and 2 s after a
\* failed attempt 1, one wait per failed attempt that is not the last; a call
\* that meets 500, 500, 200 returns a result after waiting 1 s + 2 s.
C2_BackoffSchedule ==
    /\ slept = SubSeq(<<1, 2>>, 1, Len(slept))
    /\ (pc \in {"attempting", "awaiting"} => Len(slept) = attempt /\ Len(history) = attempt)
    /\ (pc = "sleeping" => Len(slept) = attempt + 1 /\ Len(history) = attempt + 1)
    /\ (/\ Len(history) = 3
        /\ history[1].status = 500 /\ history[2].status = 500
        /\ history[3].status = 200 /\ ~ Failed(history[3])
        => pc = "returned" /\ result # NoneValue /\ SumSeq(slept) >= 3)

\* C2 witness: 500, 500, then 200 with a good body; returned after 1 s and 2 s
C2_Witness ==
    /\ pc = "returned"
    /\ Len(history) = 3
    /\ history[1].status = 500 /\ history[2].status = 500 /\ history[3].status = 200
    /\ slept = <<1, 2>>
    /\ result # NoneValue

\* C3 (as claimed): a call that has returned, returned from an attempt that got
\* HTTP 2xx and a JSON object with a `response` field; the result's text is
\* that field and absent token counts read 0.
C3_ResultOnly2xx ==
    pc = "returned" =>
        LET o == Last(history)
        IN  /\ o.kind = "reply"
            /\ 200 <= o.status /\ o.status < 300
            /\ o.body.shape = "dict"
            /\ "response" \in DOMAIN o.body.fields
            /\ result # NoneValue
            /\ result.text = o.body.fields["response"]
            /\ ("prompt_eval_count" \notin DOMAIN o.body.fields => result.prompt_tokens = 0)
            /\ ("eval_count" \notin DOMAIN o.body.fields => result.completion_tokens = 0)

\* C4 (as claimed): a call that has raised, raised ConnectionError or
\* ValueError, and only after its 3 attempts.
C4_TwoErrorClasses ==
    pc = "raised" => error \in {"ConnectionError", "ValueError"} /\ Len(history) = 3

\* C5 (as claimed): a malformed reply on attempt 0 or 1 is followed by the
\* backoff wait of that attempt, not by an error.
C5_MalformedRetried ==
    (/\ Len(history) \in {1, 2}
     /\ MalformedReply(Last(history)))
    => /\ pc \in {"sleeping", "attempting", "awaiting"}
       /\ Len(slept) = Len(history)
       /\ error = None

\* C6 (as claimed): an attempt the backend never answers ends as a failure that
\* is retried, or raised when it is the third; the call is never left waiting.
C6_AttemptTimesOut ==
    /\ pc # "blocked"
    /\ (Len(history) > 0 /\ Last(history).kind = "no_answer" =>
            IF Len(history) < 3
            THEN pc \in {"sleeping", "attempting", "awaiting"} /\ Len(slept) = Len(history)
            ELSE pc = "raised")

\* C7: a 2xx reply whose `response` is the empty string ends the call on that
\* attempt with a returned result of empty text and no error; a call that
\* raised returned nothing, and a returned empty text comes from a reply that
\* carried an empty `response`.
C7_EmptyIsSuccess ==
    /\ (/\ Len(history) > 0
        /\ Last(history).kind = "reply"
        /\ Last(history).status = 200
        /\ Last(history).body.shape = "dict"
        /\ "response" \in DOMAIN Last(history).body.fields
        /\ Last(history).body.fields["response"] = <<>>
        => /\ pc = "returned"
           /\ result # NoneValue
           /\ result.text = <<>>
           /\ error = None
           /\ Len(slept) = Len(history) - 1)
    /\ (pc = "raised" => result = NoneValue /\ error # None)
    /\ (pc = "returned" => error = None)
    /\ (pc = "returned" /\ result # NoneValue /\ result.text = <<>>
        => /\ ~ Failed(Last(history))
           /\ Last(history).body.fields["response"] = <<>>)

\* C7 witness: after a failed attempt, 200 with {"response": ""} was returned
C7_Witness ==
    /\ pc = "returned"
    /\ Len(history) = 2
    /\ Last(history).status = 200
    /\ Last(history).body.shape = "dict"
    /\ result # NoneValue
    /\ result.text = <<>>

(***************************************************************************)
(* Properties of IngestionPipeline, checked under SpecIngest               *)
(***************************************************************************)

\* C8: no exception leaves process_document; what it returns carries a
\* boolean `success`.
C8_NeverRaises ==
    op = "process_document" =>
        /\ escaped = None
        /\ "success" \in DOMAIN outcome
        /\ outcome["success"] \in BOOLEAN

\* C8 witness: the file vanished after its extractor had returned, so stat()
\* raised inside process_document, and a failure result was returned
C8_Witness ==
    /\ op = "process_document"
    /\ doc.vanishes
    /\ extractor_calls # <<>>
    /\ escaped = None
    /\ outcome["success"] = FALSE

\* C9 (as claimed): every result of process_document satisfies the
\* ExtractionResult invariant: a failure result carries the text "" and a
\* success result has text_length = len(text).
C9_ResultInvariant ==
    (op = "process_document" /\ escaped = None) =>
        /\ "text" \in DOMAIN outcome
        /\ IF outcome["success"]
           THEN /\ "text_length" \in DOMAIN outcome
                /\ outcome["text_length"] = Len(outcome["text"])
           ELSE outcome["text"] = <<>>

\* C10 (as claimed): for a document of more than 50 MB process_document invokes
\* no extractor and returns a failure.
C10_OversizeNeverExtracted ==
    (op = "process_document" /\ doc.size > MaxSize) =>
        /\ extractor_calls = <<>>
        /\ outcome["success"] = FALSE

\* the extensions _detect_content_type knows
KnownExtensions == {".pdf", ".txt", ".md", ".jpg", ".jpeg", ".png", ".gif"}

\* C11: the content type of a document is a function of its lower-cased
\* extension alone; every extension outside the known ones gets the generic
\* type, and for such a file process_document returns success = false with
\* the reason 'Unsupported file type' and calls no extractor.
C11_UnknownExtensionUnsupported ==
    op = "process_document" =>
        /\ \A d \in Documents :
              Lower(d.suffix) = Lower(doc.suffix)
                  => detect_content_type(d) = detect_content_type(doc)
        /\ (Lower(doc.suffix) \notin KnownExtensions
              => /\ detect_content_type(doc) = "application/octet-stream"
                 /\ escaped = None
                 /\ outcome["success"] = FALSE
                 /\ outcome["error"] = Err("Unsupported file type: ", "application/octet-stream")
                 /\ extractor_calls = <<>>
                 /\ ocr_calls = 0)

\* C11 witness: an existing .docx file was refused without an extractor call
C11_Witness ==
    /\ op = "process_document"
    /\ doc.suffix = ".docx"
    /\ doc.state = "file"
    /\ outcome["success"] = FALSE
    /\ outcome["error"].text = "Unsupported file type: "
    /\ extractor_calls = <<>>

(***************************************************************************)
(* Properties of prompt curation, checked under SpecCurate                 *)
(***************************************************************************)

\* the reply is one of the failures the wrapper's contract names: requests
\* raised, the body could not be used, the status is not 200, or the service
\* answered success = false
ClientFailure(r) ==
    \/ r.kind # "reply"
    \/ r.status # 200
    \/ r.body.shape # "dict"
    \/ ("success" \in DOMAIN r.body.fields /\ r.body.fields["success"] = FALSE)

\* C12: no exception leaves curate_prompt in any request thread, and when its
\* generate call has failed (whatever the class of the exception) it returns
\* the original prompt unchanged as `refined`; no exception leaves the
\* client's wrapper, and on an exception, a status other than 200 or a
\* success = false reply it returns the original prompt unchanged.
C12_CurationNeverRaises ==
    /\ \A t \in Threads :
          /\ endpoint_calls[t].escaped = None
          /\ endpoint_calls[t].pc # "raised"
          /\ (endpoint_calls[t].pc = "answered" /\ endpoint_calls[t].failure # None
                => /\ endpoint_calls[t].result["refined"] = endpoint_calls[t].prompt
                   /\ endpoint_calls[t].result["success"] = FALSE)
    /\ client_escaped = None
    /\ (client_reply # NoneValue /\ ClientFailure(client_reply)
          => client_returned = client_prompt)

\* C12 witness: the wrapper's POST timed out and it returned its prompt " q "
\* while one request thread was still inside curate_prompt("q", ...), waiting
\* for the backend; in the other thread a TypeError left generate,
\* curate_prompt returned the prompt "q" as it was given, and the endpoint
\* answered 200 with that result
C12_Witness ==
    /\ client_pc = "returned"
    /\ client_reply.kind = "timeout"
    /\ client_prompt = <<32, 113, 32>>
    /\ client_returned = <<32, 113, 32>>
    /\ endpoint_calls[1].pc = "curating"
    /\ endpoint_calls[1].prompt = <<113>>
    /\ calls[1].pc = "awaiting"
    /\ endpoint_calls[2].pc = "answered"
    /\ endpoint_calls[2].failure = "TypeError"
    /\ endpoint_calls[2].prompt = <<113>>
    /\ endpoint_calls[2].result["refined"] = <<113>>
    /\ endpoint_calls[2].result["success"] = FALSE
    /\ endpoint_calls[2].answer = Answer(200, endpoint_calls[2].result)

\* C13: a curate_prompt call makes exactly one generate call; after that call
\* has failed it falls back without entering generate again, so the POSTs one
\* curation causes are those of that one call, at most 3.
C13_OneGenerateCall ==
    cur_pc # "idle" =>
        /\ cur_generate_calls = 1
        /\ (cur_pc = "generating" => cur_posts = 0 /\ posts <= 3)
        /\ (cur_pc = "returned" => pc \in {"returned", "raised"} /\ cur_posts = posts
                                      /\ cur_posts <= 3)

\* C13 witness: three attempts failed, generate raised, and curate_prompt
\* fell back after its single generate call
C13_Witness ==
    /\ cur_pc = "returned"
    /\ pc = "raised"
    /\ cur_generate_calls = 1
    /\ cur_posts = 3
    /\ cur_result["success"] = FALSE
    /\ "fallback" \in DOMAIN cur_result

\* first position of m in a text t that contains m
Position(t, m) == CHOOSE i \in 1 .. Len(t) : OccursAt(t, m, i) /\ \A j \in 1 .. (i - 1) : ~ OccursAt(t, m, j)

\* the marker the claim gives page n (counted from 1) of the PDF d
SectionMarker(d, n) == PageMarker(n - 1, Strip(d.pages[n].text) = <<>>)

\* C14 (as claimed): with the PDF backend and OCR available, the text
\* extracted from a PDF has a section for every page, introduced by
\* `--- Page N ---` for a page with a text layer and by `--- Page N (OCR) ---`
\* for a page with an empty one, and the sections stand in page order.
C14_PageSectionsInOrder ==
    (/\ op = "process_document"
     /\ detect_content_type(doc) = "application/pdf"
     /\ pymupdf_available /\ tesseract_available
     /\ escaped = None
     /\ outcome["success"])
        => /\ \A n \in 1 .. Len(doc.pages) : Contains(outcome["text"], SectionMarker(doc, n))
           /\ \A n \in 1 .. Len(doc.pages) : \A k \in 1 .. Len(doc.pages) :
                 n < k => Position(outcome["text"], SectionMarker(doc, n))
                            < Position(outcome["text"], SectionMarker(doc, k))

\* process_document ran the text extractor on a file it could read and stat
TextExtracted ==
    /\ op = "process_document"
    /\ detect_content_type(doc) = "text/plain"
    /\ AccessError(doc) = None
    /\ ~ doc.vanishes
    /\ escaped = None

\* C15: a text file that decodes as UTF-8 gives success with confidence 1.0,
\* method direct_text and no warning; one that does not decode as UTF-8 but
\* does as latin-1 gives success with confidence 0.9 and a warning that names
\* latin-1.
C15_TextConfidence ==
    TextExtracted =>
        IF Decode("utf-8", doc.data).ok
        THEN /\ outcome["success"]
             /\ outcome["confidence"] = "1.0"
             /\ outcome["method"] = "direct_text"
             /\ "warning" \notin DOMAIN outcome
        ELSE Decode("latin-1", doc.data).ok
                => /\ outcome["success"]
                   /\ outcome["confidence"] = "0.9"
                   /\ "warning" \in DOMAIN outcome
                   /\ outcome["warning"] = Err("Used {} encoding", "latin-1")

\* C15 witness: the lone byte A9 is not UTF-8 and was read as latin-1
C15_Witness ==
    /\ TextExtracted
    /\ doc.data = <<169>>
    /\ outcome["success"]
    /\ outcome["text"] = <<169>>
    /\ outcome["confidence"] = "0.9"
    /\ outcome["warning"].arg = "latin-1"

\* the order in which the claim has the encodings tried
EncodingOrder == <<"utf-8", "latin-1", "cp1252">>

\* C16: _process_text opens the file with UTF-8, latin-1, cp1252 in that
\* order, stops at the first encoding that decodes it and returns that
\* encoding's text, and returns the decode error only when all three have
\* been tried and have failed.
C16_EncodingOrder ==
    (/\ op = "process_document"
     /\ detect_content_type(doc) = "text/plain"
     /\ AccessError(doc) = None
     /\ escaped = None)
        => /\ text_reads # <<>>
           /\ Len(text_reads) <= Len(EncodingOrder)
           /\ text_reads = SubSeq(EncodingOrder, 1, Len(text_reads))
           /\ \A i \in 1 .. (Len(text_reads) - 1) : ~ Decode(text_reads[i], doc.data).ok
           /\ (Decode(Last(text_reads), doc.data).ok /\ ~ doc.vanishes
                 => /\ outcome["success"]
                    /\ outcome["text"] = Decode(Last(text_reads), doc.data).text)
           /\ ((~ outcome["success"] /\ ~ doc.vanishes)
                 => /\ outcome["error"].text
                          = "Unable to decode text file with any supported encoding"
                    /\ text_reads = EncodingOrder
                    /\ \A i \in 1 .. 3 : ~ Decode(EncodingOrder[i], doc.data).ok)

\* C16 witness: the byte 81 is not UTF-8, latin-1 read it, and cp1252 (where
\* it is undefined) was not tried
C16_Witness ==
    /\ op = "process_document"
    /\ doc.data = <<129>>
    /\ text_reads = <<"utf-8", "latin-1">>
    /\ outcome["success"]
    /\ outcome["method"] = "text_latin-1"
    /\ outcome["text"] = <<129>>

\* the content types the registry hands to _process_image
ImageTypes == {"image/jpeg", "image/png", "image/gif"}

\* C17: a PDF processed without a PDF backend, and an image processed without
\* the OCR tool, give a failure and never a success; the failure names the
\* missing capability (when the file is there to be described), and neither
\* the page loop nor the OCR tool is run.
C17_MissingCapabilityFails ==
    (op = "process_document" /\ escaped = None) =>
        /\ (detect_content_type(doc) = "application/pdf" /\ ~ pymupdf_available
              => /\ outcome["success"] = FALSE
                 /\ "text" \notin DOMAIN outcome
                 /\ (StatError(doc) = None
                       => outcome["error"]
                            = Err("PDF processing requires PyMuPDF (pip install PyMuPDF)", ""))
                 /\ ocr_calls = 0
                 /\ temp_created = 0)
        /\ (detect_content_type(doc) \in ImageTypes /\ ~ tesseract_available
              => /\ outcome["success"] = FALSE
                 /\ "text" \notin DOMAIN outcome
                 /\ (StatError(doc) = None
                       => outcome["error"]
                            = Err("OCR requires Tesseract (install tesseract-ocr)", ""))
                 /\ ocr_calls = 0)

\* C17 witness: a two-page PDF that the library could open was refused for
\* want of the library
C17_Witness ==
    /\ op = "process_document"
    /\ ~ pymupdf_available
    /\ doc.suffix = ".pdf"
    /\ doc.opens
    /\ Len(doc.pages) = 2
    /\ outcome["success"] = FALSE
    /\ outcome["error"].text = "PDF processing requires PyMuPDF (pip install PyMuPDF)"

\* C18 (as claimed): when the OCR tool was run on an image and exited with an
\* error or printed no usable text, process_document returns a failure
\* (success = false with an error), never a success with empty text.
C18_EmptyOcrIsFailure ==
    (/\ op = "process_document"
     /\ detect_content_type(doc) \in ImageTypes
     /\ escaped = None
     /\ ocr_calls > 0
     /\ \/ doc.ocr.kind = "exit_error"
        \/ (doc.ocr.kind = "stdout" /\ Strip(doc.ocr.out) = <<>>))
        => /\ outcome["success"] = FALSE
           /\ "error" \in DOMAIN outcome

\* C19 (as claimed): when process_document ends, no temporary raster file that
\* the PDF page loop created is left, whichever way the page that created it
\* ended (OCR gave text, gave nothing, raised, or the file could not be
\* written).
C19_NoTempFileLeft ==
    op = "process_document" => temp_left = 0

\* C20: the capability flags are what the two probes of the constructor
\* found, no other probe is ever run, and the extractor registry is the
\* constructor's: no process_document or validate_file call, successful or
\* failed, changes any of them.  So what process_document returned for a
\* document, after failed calls too, is what it returns for it on this
\* pipeline whatever was processed before, and after a failed call
\* process_document can be called again.
C20_CapabilitiesFixed ==
    /\ probes = <<[probe |-> "_check_tesseract", found |-> tesseract_available],
                  [probe |-> "_check_pymupdf", found |-> pymupdf_available]>>
    /\ supported_types = DOMAIN Registry
    /\ (op = "process_document"
          => /\ outcome = process_document(doc).value
             /\ escaped = process_document(doc).raised)
    /\ ((op = None /\ failed_before) => ENABLED (\E d \in Documents : ProcessDocument(d)))

\* C20 witness: an image was read by OCR on a pipeline where an earlier call
\* had failed
C20_Witness ==
    /\ op = "process_document"
    /\ failed_before
    /\ tesseract_available
    /\ detect_content_type(doc) \in ImageTypes
    /\ outcome["success"]
    /\ outcome["text"] = <<104, 105>>

(***************************************************************************)
(* Further properties of OllamaAdapter.generate, checked under             *)
(* SpecGenerate                                                            *)
(***************************************************************************)
\* C21: generate keeps nothing of a call on the adapter: base_url and model
\* are those of the constructor in every state, also after a call made with
\* an override, and however the call before ended, a call that has not yet
\* sent a request stands at attempt 0 with no outcome and no delay recorded,
\* and no call sends more than the three requests of its own budget.
C21_NoPerCallState ==
    /\ base_url = "http://localhost:11434"
    /\ model = "deepseek-coder"
    /\ (pc = "attempting" /\ posts = 0)
          => (attempt = 0 /\ history = <<>> /\ slept = <<>>)
    /\ model_name \in {None, model, "llama3"}
    /\ posts = Len(history) + (IF pc = "awaiting" THEN 1 ELSE 0)
    /\ posts <= 3

\* a call with the override llama3, made after a call that was raised out of,
\* has used all three attempts of its own
C21_Witness ==
    /\ prior_call = "raised"
    /\ pc = "raised"
    /\ model_name = "llama3"
    /\ posts = 3
    /\ attempt = 2
    /\ model = "deepseek-coder"

(***************************************************************************)
(* Properties of the shared adapter, checked under SpecShared              *)
(***************************************************************************)
\* what the attempts recorded in call c ended in, in order
Ends(c) ==
    [i \in 1 .. Len(c.history) |->
        TryOutcome(c.history[i], json_error_is_request_exception)]

\* C22: under every interleaving of the calls of the threads, each call sends
\* at most three requests, its attempt counter counts its own failed attempts
\* and nothing else, and what it ends in follows from the outcomes of its own
\* attempts: the result is built from its own last reply, the error is that of
\* its own last attempt, and a handled error ends the call only on its own
\* third attempt.
C22_OwnAttemptCounter ==
    \A t \in Threads :
        LET c == calls[t]
            n == Len(c.history)
            e == Ends(c)
        IN  /\ c.posts <= 3
            /\ c.attempt \in AttemptRange
            /\ c.posts = n + (IF c.pc = "awaiting" THEN 1 ELSE 0)
            /\ c.pc \in {"attempting", "awaiting"} => c.attempt = n
            /\ c.pc = "sleeping" => c.attempt = n - 1
            /\ \A i \in 1 .. (n - 1) : Handler(e[i]) # "none"
            /\ c.pc = "returned" =>
                  /\ e[n] = "return"
                  /\ c.result = GenerationResult(c.history[n].body, c.model_name)
            /\ c.pc = "raised" =>
                  /\ e[n] # "return"
                  /\ c.error = IF Handler(e[n]) = "none"
                                  THEN e[n] ELSE TerminalError(Handler(e[n]))
                  /\ Handler(e[n]) # "none" => n = 3

\* thread 1 sleeps after its second failed attempt while the first request of
\* thread 2 is in flight
C22_Witness ==
    /\ calls[1].pc = "sleeping"
    /\ Len(calls[1].history) = 2
    /\ calls[2].pc = "awaiting"
    /\ calls[2].attempt = 0
    /\ calls[2].posts = 1

(***************************************************************************)
(* Properties of the advisory probes, checked under SpecProbe              *)
(***************************************************************************)
\* the probe called last has ended
ProbeEnded == probe_op # None /\ probe_pc = "returned"

\* the reply the probe met has a 2xx status
Is2xx(o) == o.kind = "reply" /\ 200 <= o.status /\ o.status < 300

\* C23: each probe issues exactly one GET and never raises; ended,
\* test_connection has returned True exactly when the reply was 2xx, and
\* list_models has returned the empty model collection whenever the GET
\* failed, the status was not 2xx or the body could not be parsed.
C23_ProbesSingleShot ==
    /\ probe_escaped = None
    /\ probe_op # None => probe_gets = 1
    /\ (ProbeEnded /\ probe_op = "test_connection")
          => (probe_returned.value <=> Is2xx(probe_met))
    /\ (ProbeEnded /\ probe_op = "list_models" /\ ~ Is2xx(probe_met))
          => probe_returned = NoModels
    /\ (ProbeEnded /\ probe_op = "list_models"
            /\ probe_met.body.shape = "unparsable")
          => probe_returned = NoModels

(***************************************************************************)
(* Further properties of IngestionPipeline, checked under SpecIngest       *)
(***************************************************************************)
\* the keys process_document adds to what the extractor returned
Annotations == {"processing_time", "file_size", "content_type"}

\* C24: every result process_document returns carries processing_time, on the
\* unsupported-type path and on the except path as well; every successful
\* result also carries file_size, the size of the file, and content_type, the
\* detected type; and the dict the extractor returned carried none of the
\* three.
C24_ResultsAnnotated ==
    (op = "process_document" /\ escaped = None) =>
        /\ "processing_time" \in DOMAIN outcome
        /\ outcome.success =>
              /\ Annotations \subseteq DOMAIN outcome
              /\ outcome.file_size = doc.size
              /\ outcome.content_type = detect_content_type(doc)
        /\ extractor_calls # <<>> =>
              \E r \in {Processor(extractor_calls[1], doc)} :
                  r.raised = None => DOMAIN r.value \cap Annotations = {}

\* a PDF read with OCR has come back successful, with the size and the type of
\* the file
C24_Witness ==
    /\ op = "process_document"
    /\ outcome.success
    /\ extractor_calls = <<"_process_pdf">>
    /\ ocr_calls > 0
    /\ outcome.file_size = doc.size
    /\ outcome.content_type = "application/pdf"

(***************************************************************************)
(* Properties of the OCR calls, checked under SpecOcr                      *)
(***************************************************************************)
\* C25: no call of process_document stays inside an OCR run for good: a run
\* of the OCR tool that never exits is cut off by a timeout and the call
\* returns a result.  (A call is one step of the model unless it never
\* returns, so a state with a call still running is a state that lasts.)
C25_OcrBounded == running = None

(***************************************************************************)
(* Properties of validate_file, checked under SpecIngest                   *)
(***************************************************************************)
Abs(x) == IF x < 0 THEN 0 - x ELSE x

\* the content types the pipeline has an extractor for
SupportedKinds ==
    {"application/pdf", "text/plain", "image/jpeg", "image/png", "image/gif"}

\* C26: validate_file reports the first check that fails, in the order
\* existence, regular file, supported kind, size.  A file of 50 * 1024 * 1024
\* bytes or less that passes the first three checks is valid and the result
\* carries its content type and its size; a larger one is rejected with the
\* message 'File too large' that states its size in megabytes to the nearest
\* tenth.
C26_ValidationOrder ==
    op = "validate_file" =>
        LET kind == detect_content_type(doc)
        IN  IF doc.state = "missing"
               THEN outcome = [valid |-> FALSE, error |-> Err("File does not exist", "")]
            ELSE IF doc.state = "directory"
               THEN outcome = [valid |-> FALSE, error |-> Err("Path is not a file", "")]
            ELSE IF kind \notin SupportedKinds
               THEN /\ ~ outcome.valid
                    /\ outcome.error = Err("Unsupported file type: ", kind)
            ELSE IF doc.size > 50 * 1024 * 1024
               THEN /\ ~ outcome.valid
                    /\ outcome.error.text = "File too large: {}MB (max: 50MB)"
                    /\ 2 * Abs(10 * doc.size - outcome.error.arg * 1048576) <= 1048576
            ELSE outcome = [valid |-> TRUE, content_type |-> kind, size |-> doc.size]

\* a text file of exactly 50 MB has been found valid
C26_Witness ==
    /\ op = "validate_file"
    /\ doc.size = 50 * 1024 * 1024
    /\ doc.suffix = ".txt"
    /\ outcome = [valid |-> TRUE, content_type |-> "text/plain", size |-> MaxSize]

(***************************************************************************)
(* The end of the retry loop, checked under SpecGenerate                   *)
(***************************************************************************)
\* keys of the dict generate returns
ResultKeys == {"text", "model", "prompt_tokens", "completion_tokens", "done"}

\* C27: the for loop of generate is never exhausted: a call that sleeps after
\* a failed attempt has a next attempt to make, so a call that has returned
\* has returned a result dict, never None, and a call whose third attempt
\* failed with a handled error has raised.
C27_NeverFallsOut ==
    /\ pc = "sleeping" => (attempt + 1) \in 0 .. 2
    /\ pc = "returned" => (result # NoneValue /\ DOMAIN result = ResultKeys)
    /\ pc = "returned" => ~ Failed(Last(history))
    /\ (Len(history) = 3 /\ pc \notin {"returned", "blocked"}) => pc = "raised"

\* the connection failed, then a reply lacked `response`, then the backend
\* answered 500: the call has raised
C27_Witness ==
    /\ pc = "raised"
    /\ Len(history) = 3
    /\ history[1].kind = "connection_error"
    /\ MalformedReply(history[2])
    /\ history[3].status = 500
    /\ result = NoneValue

\* the attempt failed on the network or on the HTTP status
TransportFailure(o) ==
    \/ o.kind = "connection_error"
    \/ (o.kind = "reply" /\ o.status \in ErrorStatuses)

\* C28 (as claimed): the error of a call that has raised after its third
\* attempt follows from the third attempt alone: ConnectionError when that
\* attempt failed on the network or on the HTTP status, ValueError when its
\* reply was malformed, whatever the first two attempts failed on.
C28_TerminalClassByThird ==
    (pc = "raised" /\ Len(history) = 3) =>
        /\ TransportFailure(history[3]) => error = "ConnectionError"
        /\ MalformedReply(history[3]) => error = "ValueError"

(***************************************************************************)
(* Page markers of the PDF extraction, checked under SpecIngest            *)
(***************************************************************************)
\* "--- Page ", what both page markers begin with
MarkerStart == <<45, 45, 45, 32, 80, 97, 103, 101, 32>>

\* the number of page markers in the text t
MarkerCount(t) == Cardinality({ i \in 1 .. Len(t) : OccursAt(t, MarkerStart, i) })

\* C29 (as claimed): the text of a successful PDF extraction has as many page
\* markers as the result reports pages, also when a page without a text layer
\* met no OCR or an OCR that found nothing, and the text is not empty.
C29_EveryPageMarked ==
    (/\ op = "process_document"
     /\ detect_content_type(doc) = "application/pdf"
     /\ escaped = None
     /\ outcome["success"])
        => /\ MarkerCount(outcome["text"]) = outcome["pages"]
           /\ outcome["text"] # <<>>

(***************************************************************************)
(* Properties of upload_document, checked under SpecUpload                 *)
(***************************************************************************)
\* C30 (as claimed): an answer of upload_document that says success = true
\* answers an upload for which process_document returned success = true.
C30_UploadFaithful ==
    \A u \in Uploads :
        (upload_status[u] = 200 /\ upload_response[u]["success"])
            => (upload_result[u].raised = None /\ upload_result[u].value["success"])

====
